---- MODULE Spec2Model ----
(***************************************************************************)
(* VibeStudio: the theme apply/merge engine (ThemeManager), the theme      *)
(* store and backup ring, the auto-switch scheduler (AutoSwitcher), the    *)
(* customizer panel (ThemeCustomizer) and the exporter (ExportManager),    *)
(* as state machines over the host's settings store, global state and      *)
(* files.                                                                  *)
(***************************************************************************)
EXTENDS Integers, Sequences, FiniteSets, TLC

(***************************************************************************)
(* Values.  A JavaScript `undefined` colour is the string Undefined; an    *)
(* optional record, and a setting that may be unset, is a sequence of      *)
(* length 0 (absent) or 1 (present).                                       *)
(***************************************************************************)
Undefined == "undefined"

\* o?.f on an optional record (ThemeManager.ts 365-373)
Opt(o, f) == IF o = <<>> THEN Undefined ELSE o[1][f]

\* the empty object {}
EmptyMap == [k \in {} |-> Undefined]

\* Object.assign(target, source): keys of source overwrite those of target
ObjectAssign(target, source) ==
  [k \in (DOMAIN target) \cup (DOMAIN source) |->
     IF k \in DOMAIN source THEN source[k] ELSE target[k]]

\* what the settings store keeps of an object written with config.update:
\* the JSON form, in which an undefined-valued property does not exist
Stored(obj) == [k \in {x \in DOMAIN obj : obj[x] # Undefined} |-> obj[k]]

\* a "#RRGGBB" colour of palette p (two hex digits) and field tag (four)
Hex(p, tag) == "#" \o p \o tag

(***************************************************************************)
(* The theme document (TerminalTheme).  Every colour field of a document   *)
(* carries a value of its own, so that a key written from the wrong field  *)
(* shows.                                                                  *)
(***************************************************************************)
ColorsRecord(p) ==
  [
    background |-> Hex(p, "0001"),
    foreground |-> Hex(p, "0002"),
    selection |-> Hex(p, "0003"),
    selectionBackground |-> Hex(p, "0004"),
    ansiBlack |-> Hex(p, "0005"),
    ansiRed |-> Hex(p, "0006"),
    ansiGreen |-> Hex(p, "0007"),
    ansiYellow |-> Hex(p, "0008"),
    ansiBlue |-> Hex(p, "0009"),
    ansiMagenta |-> Hex(p, "000a"),
    ansiCyan |-> Hex(p, "000b"),
    ansiWhite |-> Hex(p, "000c"),
    ansiBrightBlack |-> Hex(p, "000d"),
    ansiBrightRed |-> Hex(p, "000e"),
    ansiBrightGreen |-> Hex(p, "000f"),
    ansiBrightYellow |-> Hex(p, "0010"),
    ansiBrightBlue |-> Hex(p, "0011"),
    ansiBrightMagenta |-> Hex(p, "0012"),
    ansiBrightCyan |-> Hex(p, "0013"),
    ansiBrightWhite |-> Hex(p, "0014"),
    border |-> Hex(p, "0015"),
    tab |-> [ activeForeground |-> Hex(p, "0016"),
               activeBackground |-> Hex(p, "0017"),
               inactiveForeground |-> Hex(p, "0018"),
               inactiveBackground |-> Hex(p, "0019"),
               border |-> Hex(p, "001a") ]
  ]

EditorThemeRecord(p, optional) ==
  [
    editor |->
      [ background |-> Hex(p, "0101"), foreground |-> Hex(p, "0102"), selectionBackground |-> Hex(p, "0103"),
        selectionForeground |-> Hex(p, "0104"), lineHighlightBackground |-> Hex(p, "0105"), cursorColor |-> Hex(p, "0106"),
        indentGuideBackground |-> Hex(p, "0107"), indentGuideActiveBackground |-> Hex(p, "0108") ],
    activityBar |->
      [ background |-> Hex(p, "0109"), foreground |-> Hex(p, "010a"), inactiveForeground |-> Hex(p, "010b"),
        border |-> Hex(p, "010c"), activeBorder |-> Hex(p, "010d"), activeBackground |-> Hex(p, "010e") ],
    sideBar |->
      [ background |-> Hex(p, "010f"), foreground |-> Hex(p, "0110"), border |-> Hex(p, "0111") ],
    sideBarSectionHeader |-> IF optional THEN <<
      [ background |-> Hex(p, "0112"), foreground |-> Hex(p, "0113"), border |-> Hex(p, "0114") ]>> ELSE <<>>,
    statusBar |->
      [ background |-> Hex(p, "0115"), foreground |-> Hex(p, "0116"), border |-> Hex(p, "0117"),
        debuggingBackground |-> Hex(p, "0118"), debuggingForeground |-> Hex(p, "0119"), noFolderBackground |-> Hex(p, "011a"),
        noFolderForeground |-> Hex(p, "011b") ],
    titleBar |->
      [ activeBackground |-> Hex(p, "011c"), activeForeground |-> Hex(p, "011d"), inactiveBackground |-> Hex(p, "011e"),
        inactiveForeground |-> Hex(p, "011f"), border |-> Hex(p, "0120") ],
    panel |->
      [ background |-> Hex(p, "0121"), border |-> Hex(p, "0122"), dropBorder |-> Hex(p, "0123") ],
    tab |->
      [ activeBackground |-> Hex(p, "0124"), activeForeground |-> Hex(p, "0125"), activeBorder |-> Hex(p, "0126"),
        activeBorderTop |-> Hex(p, "0127"), inactiveBackground |-> Hex(p, "0128"), inactiveForeground |-> Hex(p, "0129"),
        inactiveModifiedBorder |-> Hex(p, "012a"), unfocusedActiveBackground |-> Hex(p, "012b"), unfocusedActiveForeground |-> Hex(p, "012c"),
        unfocusedInactiveBackground |-> Hex(p, "012d"), unfocusedInactiveForeground |-> Hex(p, "012e"), border |-> Hex(p, "012f") ],
    input |->
      [ background |-> Hex(p, "0130"), foreground |-> Hex(p, "0131"), border |-> Hex(p, "0132"),
        placeholderForeground |-> Hex(p, "0133") ],
    dropdown |->
      [ background |-> Hex(p, "0134"), foreground |-> Hex(p, "0135"), border |-> Hex(p, "0136") ],
    button |->
      [ background |-> Hex(p, "0137"), foreground |-> Hex(p, "0138"), hoverBackground |-> Hex(p, "0139"),
        secondaryBackground |-> Hex(p, "013a"), secondaryForeground |-> Hex(p, "013b"), secondaryHoverBackground |-> Hex(p, "013c") ],
    checkbox |->
      [ background |-> Hex(p, "013d"), foreground |-> Hex(p, "013e"), border |-> Hex(p, "013f") ],
    badge |->
      [ background |-> Hex(p, "0140"), foreground |-> Hex(p, "0141") ],
    progressBar |->
      [ background |-> Hex(p, "0142") ],
    list |->
      [ activeSelectionBackground |-> Hex(p, "0143"), activeSelectionForeground |-> Hex(p, "0144"), inactiveSelectionBackground |-> Hex(p, "0145"),
        inactiveSelectionForeground |-> Hex(p, "0146"), hoverBackground |-> Hex(p, "0147"), hoverForeground |-> Hex(p, "0148"),
        focusBackground |-> Hex(p, "0149"), focusForeground |-> Hex(p, "014a") ],
    scrollbar |->
      [ shadow |-> Hex(p, "014b") ],
    syntax |->
      [ comment |-> Hex(p, "014c"), keyword |-> Hex(p, "014d"), string |-> Hex(p, "014e"),
        number |-> Hex(p, "014f"), function |-> Hex(p, "0150"), variable |-> Hex(p, "0151"),
        type |-> Hex(p, "0152"), class |-> Hex(p, "0153"), interface |-> Hex(p, "0154"),
        namespace |-> Hex(p, "0155"), operator |-> Hex(p, "0156"), punctuation |-> Hex(p, "0157"),
        constant |-> Hex(p, "0158"), property |-> Hex(p, "0159"), tag |-> Hex(p, "015a"),
        attribute |-> Hex(p, "015b") ],
    panelTitle |-> IF optional THEN <<
      [ background |-> Hex(p, "015c"), activeForeground |-> Hex(p, "015d"), activeBorder |-> Hex(p, "015e"),
        inactiveForeground |-> Hex(p, "015f") ]>> ELSE <<>>
  ]

FontRecord(p, ligatures) ==
  IF p = "0a"
    THEN [family |-> "Fira Code", size |-> 12, weight |-> "normal",
          ligatures |-> ligatures, lineHeight |-> "1.2"]
    ELSE [family |-> "Consolas", size |-> 16, weight |-> "bold",
          ligatures |-> ligatures, lineHeight |-> "1.5"]

CursorRecord(p) ==
  IF p = "0a"
    THEN [style |-> "block", blinking |-> TRUE, color |-> Hex(p, "0020")]
    ELSE [style |-> "line", blinking |-> FALSE, color |-> Hex(p, "0020")]

\* a document named name of palette p; editorTheme is <<>> or <<record>>
TerminalTheme(name, p, editorTheme, applyToEditor, applyToWorkbench, customCss, transparency, ligatures) ==
  [ name |-> name, created |-> 0, modified |-> 0,
    font |-> FontRecord(p, ligatures),
    cursor |-> CursorRecord(p),
    colors |-> ColorsRecord(p),
    editorTheme |-> editorTheme,
    integration |-> [applyToEditor |-> applyToEditor, applyToTerminal |-> TRUE,
                     applyToWorkbench |-> applyToWorkbench, customCss |-> customCss],
    effects |-> [transparency |-> transparency] ]

(***************************************************************************)
(* applyTheme: the colour objects it builds.                               *)
(***************************************************************************)
TerminalColors(theme) ==
    "terminal.background" :> theme.colors.background @@
    "terminal.foreground" :> theme.colors.foreground @@
    "terminal.selectionBackground" :> theme.colors.selectionBackground @@
    "terminal.ansiBlack" :> theme.colors.ansiBlack @@
    "terminal.ansiRed" :> theme.colors.ansiRed @@
    "terminal.ansiGreen" :> theme.colors.ansiGreen @@
    "terminal.ansiYellow" :> theme.colors.ansiYellow @@
    "terminal.ansiBlue" :> theme.colors.ansiBlue @@
    "terminal.ansiMagenta" :> theme.colors.ansiMagenta @@
    "terminal.ansiCyan" :> theme.colors.ansiCyan @@
    "terminal.ansiWhite" :> theme.colors.ansiWhite @@
    "terminal.ansiBrightBlack" :> theme.colors.ansiBrightBlack @@
    "terminal.ansiBrightRed" :> theme.colors.ansiBrightRed @@
    "terminal.ansiBrightGreen" :> theme.colors.ansiBrightGreen @@
    "terminal.ansiBrightYellow" :> theme.colors.ansiBrightYellow @@
    "terminal.ansiBrightBlue" :> theme.colors.ansiBrightBlue @@
    "terminal.ansiBrightMagenta" :> theme.colors.ansiBrightMagenta @@
    "terminal.ansiBrightCyan" :> theme.colors.ansiBrightCyan @@
    "terminal.ansiBrightWhite" :> theme.colors.ansiBrightWhite @@
    "terminal.border" :> theme.colors.border @@
    "terminalCursor.foreground" :> theme.cursor.color @@
    "terminalCursor.background" :> theme.colors.background

EditorColors(theme) ==
  LET et == theme.editorTheme[1] IN
    "editor.background" :> et.editor.background @@
    "editor.foreground" :> et.editor.foreground @@
    "editor.selectionBackground" :> et.editor.selectionBackground @@
    "editor.selectionForeground" :> et.editor.selectionForeground @@
    "editor.lineHighlightBackground" :> et.editor.lineHighlightBackground @@
    "editorCursor.foreground" :> et.editor.cursorColor @@
    "editorIndentGuide.background" :> et.editor.indentGuideBackground @@
    "editorIndentGuide.activeBackground" :> et.editor.indentGuideActiveBackground @@
    "activityBar.background" :> et.activityBar.background @@
    "activityBar.foreground" :> et.activityBar.foreground @@
    "activityBar.inactiveForeground" :> et.activityBar.inactiveForeground @@
    "activityBar.border" :> et.activityBar.border @@
    "activityBar.activeBorder" :> et.activityBar.activeBorder @@
    "activityBar.activeBackground" :> et.activityBar.activeBackground @@
    "sideBar.background" :> et.sideBar.background @@
    "sideBar.foreground" :> et.sideBar.foreground @@
    "sideBar.border" :> et.sideBar.border @@
    "sideBarSectionHeader.background" :> Opt(et.sideBarSectionHeader, "background") @@
    "sideBarSectionHeader.foreground" :> Opt(et.sideBarSectionHeader, "foreground") @@
    "sideBarSectionHeader.border" :> Opt(et.sideBarSectionHeader, "border") @@
    "panel.background" :> Opt(et.panelTitle, "background") @@
    "panelTitle.activeForeground" :> Opt(et.panelTitle, "activeForeground") @@
    "panelTitle.activeBorder" :> Opt(et.panelTitle, "activeBorder") @@
    "panelTitle.inactiveForeground" :> Opt(et.panelTitle, "inactiveForeground") @@
    "statusBar.background" :> et.statusBar.background @@
    "statusBar.foreground" :> et.statusBar.foreground @@
    "statusBar.border" :> et.statusBar.border @@
    "statusBar.debuggingBackground" :> et.statusBar.debuggingBackground @@
    "statusBar.debuggingForeground" :> et.statusBar.debuggingForeground @@
    "statusBar.noFolderBackground" :> et.statusBar.noFolderBackground @@
    "statusBar.noFolderForeground" :> et.statusBar.noFolderForeground @@
    "titleBar.activeBackground" :> et.titleBar.activeBackground @@
    "titleBar.activeForeground" :> et.titleBar.activeForeground @@
    "titleBar.inactiveBackground" :> et.titleBar.inactiveBackground @@
    "titleBar.inactiveForeground" :> et.titleBar.inactiveForeground @@
    "titleBar.border" :> et.titleBar.border @@
    "tab.activeBackground" :> et.tab.activeBackground @@
    "tab.activeForeground" :> et.tab.activeForeground @@
    "tab.activeBorder" :> et.tab.activeBorder @@
    "tab.activeBorderTop" :> et.tab.activeBorderTop @@
    "tab.inactiveBackground" :> et.tab.inactiveBackground @@
    "tab.inactiveForeground" :> et.tab.inactiveForeground @@
    "tab.inactiveModifiedBorder" :> et.tab.inactiveModifiedBorder @@
    "tab.unfocusedActiveBackground" :> et.tab.unfocusedActiveBackground @@
    "tab.unfocusedActiveForeground" :> et.tab.unfocusedActiveForeground @@
    "tab.unfocusedInactiveBackground" :> et.tab.unfocusedInactiveBackground @@
    "tab.unfocusedInactiveForeground" :> et.tab.unfocusedInactiveForeground @@
    "tab.border" :> et.tab.border @@
    "input.background" :> et.input.background @@
    "input.foreground" :> et.input.foreground @@
    "input.border" :> et.input.border @@
    "input.placeholderForeground" :> et.input.placeholderForeground @@
    "dropdown.background" :> et.dropdown.background @@
    "dropdown.foreground" :> et.dropdown.foreground @@
    "dropdown.border" :> et.dropdown.border @@
    "button.background" :> et.button.background @@
    "button.foreground" :> et.button.foreground @@
    "button.hoverBackground" :> et.button.hoverBackground @@
    "button.secondaryBackground" :> et.button.secondaryBackground @@
    "button.secondaryForeground" :> et.button.secondaryForeground @@
    "button.secondaryHoverBackground" :> et.button.secondaryHoverBackground @@
    "checkbox.background" :> et.checkbox.background @@
    "checkbox.foreground" :> et.checkbox.foreground @@
    "checkbox.border" :> et.checkbox.border @@
    "badge.background" :> et.badge.background @@
    "badge.foreground" :> et.badge.foreground @@
    "progressBar.background" :> et.progressBar.background @@
    "list.activeSelectionBackground" :> et.list.activeSelectionBackground @@
    "list.activeSelectionForeground" :> et.list.activeSelectionForeground @@
    "list.inactiveSelectionBackground" :> et.list.inactiveSelectionBackground @@
    "list.inactiveSelectionForeground" :> et.list.inactiveSelectionForeground @@
    "list.hoverBackground" :> et.list.hoverBackground @@
    "list.hoverForeground" :> et.list.hoverForeground @@
    "list.focusBackground" :> et.list.focusBackground @@
    "list.focusForeground" :> et.list.focusForeground

\* the token colour object (ThemeManager.ts 450-508)
TokenColorCustomizations(theme) ==
  LET syntax == theme.editorTheme[1].syntax IN
  [ comments |-> syntax.comment, keywords |-> syntax.keyword,
    strings |-> syntax.string, numbers |-> syntax.number,
    functions |-> syntax.function, variables |-> syntax.variable,
    types |-> syntax.type,
    textMateRules |->
      << [scope |-> <<"comment">>, foreground |-> syntax.comment],
         [scope |-> <<"keyword", "storage.type", "storage.modifier">>,
          foreground |-> syntax.keyword],
         [scope |-> <<"string", "string.quoted">>, foreground |-> syntax.string],
         [scope |-> <<"constant.numeric", "constant.language">>,
          foreground |-> syntax.number],
         [scope |-> <<"entity.name.function", "support.function">>,
          foreground |-> syntax.function],
         [scope |-> <<"variable", "variable.other">>,
          foreground |-> syntax.variable],
         [scope |-> <<"entity.name.type", "support.type", "storage.type">>,
          foreground |-> syntax.type],
         [scope |-> <<"entity.name.class", "support.class">>,
          foreground |-> syntax.class] >> ]

\* FallbackEditorColors with the editor's cursor coloured as well
FallbackEditorColorsWithCursor(theme) ==
    "editor.background" :> theme.colors.background @@
    "editor.foreground" :> theme.colors.foreground @@
    "editor.selectionBackground" :> theme.colors.selectionBackground @@
    "editorCursor.foreground" :> theme.cursor.color

\* the three generic editor keys of the fallback (ThemeManager.ts 511-518)
FallbackEditorColors(theme) ==
    "editor.background" :> theme.colors.background @@
    "editor.foreground" :> theme.colors.foreground @@
    "editor.selectionBackground" :> theme.colors.selectionBackground

\* the four workbench-shell keys of the fallback (ThemeManager.ts 520-528)
FallbackWorkbenchColors(theme) ==
    "sideBar.background" :> theme.colors.background @@
    "activityBar.background" :> theme.colors.background @@
    "statusBar.background" :> theme.colors.background @@
    "titleBar.activeBackground" :> theme.colors.background

\* MergedColorCustomizations with the workbench fallback written whenever
\* there is no editorTheme, applyToWorkbench or not
MergedColorCustomizationsAnyWorkbench(theme, colorCustomizations) ==
  LET withEditor ==
        IF theme.integration.applyToEditor /\ theme.editorTheme # <<>>
          THEN ObjectAssign(colorCustomizations, EditorColors(theme))
          ELSE IF theme.integration.applyToEditor
                 THEN ObjectAssign(colorCustomizations, FallbackEditorColors(theme))
                 ELSE colorCustomizations
      withWorkbench ==
        IF theme.editorTheme = <<>>
          THEN ObjectAssign(withEditor, FallbackWorkbenchColors(theme))
          ELSE withEditor
  IN ObjectAssign(withWorkbench, TerminalColors(theme))

\* the object applyTheme passes to config.update at line 533: the map it
\* read at line 299 with the editor colours (or their fallback), the
\* workbench fallback and then the terminal colours assigned onto it
MergedColorCustomizations(theme, colorCustomizations) ==
  LET withEditor ==
        IF theme.integration.applyToEditor /\ theme.editorTheme # <<>>
          THEN ObjectAssign(colorCustomizations, EditorColors(theme))
          ELSE IF theme.integration.applyToEditor
                 THEN ObjectAssign(colorCustomizations, FallbackEditorColors(theme))
                 ELSE colorCustomizations
      withWorkbench ==
        IF theme.integration.applyToWorkbench /\ theme.editorTheme = <<>>
          THEN ObjectAssign(withEditor, FallbackWorkbenchColors(theme))
          ELSE withEditor
  IN ObjectAssign(withWorkbench, TerminalColors(theme))

(***************************************************************************)
(* applyCustomEffects: the alpha suffix.  Math.round((100 - t) * 2.55) is  *)
(* computed in IEEE-754 doubles.  The double nearest 2.55 is               *)
(* 2.55 - (2/5) * 2^-51, so n * 2.55 is exact product n * 255 / 100 less   *)
(* (2n/5) * 2^-51, rounded to 53 bits.  Unless n * 255 / 100 is half-way   *)
(* between two integers the result is the nearest integer.  At a half-way  *)
(* point q + 1/2 with 2^k <= q < 2^(k+1) the spacing of doubles is         *)
(* 2^(k-1) * 2^-51; the product rounds to q + 1/2 (and Math.round gives    *)
(* q + 1) iff its error is at most half the spacing, 8n <= 5 * 2^k (a tie  *)
(* goes to the even mantissa, which is that of q + 1/2), and otherwise to  *)
(* the double below q + 1/2 (and Math.round gives q).                      *)
(***************************************************************************)
RECURSIVE Pow2(_)
Pow2(k) == IF k = 0 THEN 1 ELSE 2 * Pow2(k - 1)

RECURSIVE Log2Floor(_)
Log2Floor(q) == IF q < 2 THEN 0 ELSE 1 + Log2Floor(q \div 2)

\* Math.round(n * 2.55) for an integer n in 0..100
RoundTimes255(n) ==
  LET q == (n * 255) \div 100
      r == (n * 255) % 100
  IN IF r < 50 THEN q
     ELSE IF r > 50 THEN q + 1
     ELSE IF 8 * n <= 5 * Pow2(Log2Floor(q)) THEN q + 1 ELSE q

HexDigits == <<"0", "1", "2", "3", "4", "5", "6", "7",
               "8", "9", "a", "b", "c", "d", "e", "f">>

\* n.toString(16).padStart(2, "0") for n in 0..255
ToHex2(n) == HexDigits[(n \div 16) + 1] \o HexDigits[(n % 16) + 1]

\* the alpha suffix of applyCustomEffects (ThemeManager.ts 559-561)
Alpha(transparency) == ToHex2(RoundTimes255(100 - transparency))

\* the map applyCustomEffects writes at line 564 over the map it read at 556
CustomEffectsColorMap(theme, colorCustomizations) ==
  IF theme.effects.transparency > 0
    THEN Stored(ObjectAssign(colorCustomizations,
           "terminal.background" :>
             (theme.colors.background \o Alpha(theme.effects.transparency))))
    ELSE colorCustomizations

\* ApplyColorMap building on a fresh object instead of the map read
ApplyColorMapFromEmpty(theme, colorCustomizations) ==
  LET written == Stored(MergedColorCustomizations(theme, EmptyMap))
  IN IF theme.integration.customCss # ""
       THEN CustomEffectsColorMap(theme, written)
       ELSE written

\* ApplyColorMap appending the alpha suffix to the terminal background the
\* map read already held
ApplyColorMapAppending(theme, colorCustomizations) ==
  LET written == Stored(MergedColorCustomizations(theme, colorCustomizations))
      held == IF "terminal.background" \in DOMAIN colorCustomizations
                THEN colorCustomizations["terminal.background"]
                ELSE theme.colors.background
  IN IF theme.integration.customCss # "" /\ theme.effects.transparency > 0
       THEN Stored(ObjectAssign(written,
              "terminal.background" :>
                (held \o Alpha(theme.effects.transparency))))
       ELSE written

\* the colour map applyTheme leaves in the store, from the map it read at
\* line 299: the write of line 533, then applyCustomEffects when customCss is
\* a non-empty string (lines 541-543)
ApplyColorMap(theme, colorCustomizations) ==
  LET written == Stored(MergedColorCustomizations(theme, colorCustomizations))
  IN IF theme.integration.customCss # ""
       THEN CustomEffectsColorMap(theme, written)
       ELSE written

(***************************************************************************)
(* The host's settings store: every key holds <<>> (no user value) or      *)
(* <<value>>.                                                              *)
(***************************************************************************)
\* the keys createBackup records (ThemeManager.ts 622-629)
SnapshotKeys ==
  { "terminal.integrated.fontFamily", "terminal.integrated.fontSize",
    "terminal.integrated.fontWeight", "terminal.integrated.lineHeight",
    "terminal.integrated.cursorStyle", "terminal.integrated.cursorBlinking",
    "workbench.colorTheme", "workbench.colorCustomizations" }

AutoSwitchKeys ==
  { "termistyle.autoSwitch.enabled", "termistyle.autoSwitch.mode",
    "termistyle.autoSwitch.lightTheme", "termistyle.autoSwitch.darkTheme",
    "termistyle.autoSwitch.lightHour", "termistyle.autoSwitch.darkHour" }

SettingKeys ==
  SnapshotKeys \cup AutoSwitchKeys \cup
  { "editor.tokenColorCustomizations", "editor.fontLigatures",
    "vibestudio.backup.enabled" }

\* config.get(key, default) on the store s
ConfigGet(s, key, default) == IF s[key] = <<>> THEN default ELSE s[key][1]

\* ApplyThemeWrites emptying the token-colour map when the document's
\* editorTheme is not applied
ApplyThemeWritesClearingTokens(s, theme) ==
  LET cleared == [s EXCEPT !["workbench.colorTheme"] = <<>>]
      colorCustomizations ==
        ConfigGet(cleared, "workbench.colorCustomizations", EmptyMap)
      discrete ==
        [cleared EXCEPT
           !["terminal.integrated.fontFamily"] = <<theme.font.family>>,
           !["terminal.integrated.fontSize"] = <<theme.font.size>>,
           !["terminal.integrated.fontWeight"] = <<theme.font.weight>>,
           !["terminal.integrated.lineHeight"] = <<theme.font.lineHeight>>,
           !["terminal.integrated.cursorStyle"] = <<theme.cursor.style>>,
           !["terminal.integrated.cursorBlinking"] = <<theme.cursor.blinking>>]
      tokens ==
        IF theme.integration.applyToEditor /\ theme.editorTheme # <<>>
          THEN [discrete EXCEPT !["editor.tokenColorCustomizations"] =
                                  <<TokenColorCustomizations(theme)>>]
          ELSE [discrete EXCEPT !["editor.tokenColorCustomizations"] =
                                  <<EmptyMap>>]
      colors ==
        [tokens EXCEPT !["workbench.colorCustomizations"] =
                         <<ApplyColorMap(theme, colorCustomizations)>>]
  IN IF theme.font.ligatures
       THEN [colors EXCEPT !["editor.fontLigatures"] = <<TRUE>>]
       ELSE colors

\* the settings applyTheme has written when it returns (ThemeManager.ts
\* 294-543), from the store s it started on
ApplyThemeWrites(s, theme) ==
  LET cleared == [s EXCEPT !["workbench.colorTheme"] = <<>>]
      colorCustomizations ==
        ConfigGet(cleared, "workbench.colorCustomizations", EmptyMap)
      discrete ==
        [cleared EXCEPT
           !["terminal.integrated.fontFamily"] = <<theme.font.family>>,
           !["terminal.integrated.fontSize"] = <<theme.font.size>>,
           !["terminal.integrated.fontWeight"] = <<theme.font.weight>>,
           !["terminal.integrated.lineHeight"] = <<theme.font.lineHeight>>,
           !["terminal.integrated.cursorStyle"] = <<theme.cursor.style>>,
           !["terminal.integrated.cursorBlinking"] = <<theme.cursor.blinking>>]
      tokens ==
        IF theme.integration.applyToEditor /\ theme.editorTheme # <<>>
          THEN [discrete EXCEPT !["editor.tokenColorCustomizations"] =
                                  <<TokenColorCustomizations(theme)>>]
          ELSE discrete
      colors ==
        [tokens EXCEPT !["workbench.colorCustomizations"] =
                         <<ApplyColorMap(theme, colorCustomizations)>>]
  IN IF theme.font.ligatures
       THEN [colors EXCEPT !["editor.fontLigatures"] = <<TRUE>>]
       ELSE colors

(***************************************************************************)
(* The backup ring.                                                        *)
(***************************************************************************)
\* "Keep only last 10 backups" (ThemeManager.ts 637-638)
RingCapacity == 10

\* NewBackup capturing every setting of the store
NewBackupOfEverySetting(s, t) ==
  [ timestamp |-> t,
    settings |-> s ]

\* the ThemeBackup createBackup builds at time t (ThemeManager.ts 619-632);
\* the captured theme document is left out
NewBackup(s, t) ==
  [ timestamp |-> t,
    settings |-> [k \in SnapshotKeys |-> s[k]] ]

\* Pushed keeping the last ten of the array instead of the first ten
PushedKeepingOldest(ring, backup) ==
  LET all == <<backup>> \o ring
  IN IF Len(all) > RingCapacity
       THEN SubSeq(all, Len(all) - RingCapacity + 1, Len(all))
       ELSE all

\* this.backups after unshift and truncation (ThemeManager.ts 634-639)
Pushed(ring, backup) ==
  LET all == <<backup>> \o ring
  IN IF Len(all) > RingCapacity THEN SubSeq(all, 1, RingCapacity) ELSE all

(***************************************************************************)
(* Inputs and bounds.                                                      *)
(***************************************************************************)
\* operations the environment starts in one behaviour
MaxOps == 2

\* the clock (milliseconds since the start) stops at MaxTime
MaxTime == 2

\* calls of the scheduler's methods and edits of the base theme in one
\* behaviour
MaxCalls == 2

\* the timer fires while the evaluations suspended and the backups pushed
\* are fewer than MaxEvals
MaxEvals == 2

\* effects.transparency values of the documents applied
Transparencies == {0, 10, 25, 50, 75, 100}

TerminalOnly ==
  TerminalTheme("Dark", "0a", <<>>, FALSE, FALSE, "", 0, FALSE)

FullEditor ==
  TerminalTheme("Light", "f1", <<EditorThemeRecord("f1", TRUE)>>,
                TRUE, TRUE, "", 0, TRUE)

\* an editorTheme as the type declares it: no panelTitle, and no
\* sideBarSectionHeader
TypedEditor ==
  TerminalTheme("Light", "f1", <<EditorThemeRecord("f1", FALSE)>>,
                TRUE, FALSE, "", 0, FALSE)

\* an editorTheme that applyToEditor = false leaves unused
UnusedEditor ==
  TerminalTheme("Dark", "0a", <<EditorThemeRecord("0a", TRUE)>>,
                FALSE, TRUE, "", 0, FALSE)

Fallback ==
  TerminalTheme("Dark", "0a", <<>>, TRUE, TRUE, "", 0, FALSE)

\* no editorTheme, and one of applyToEditor and applyToWorkbench each
FallbackEditor ==
  TerminalTheme("Dark", "0a", <<>>, TRUE, FALSE, "", 0, FALSE)

FallbackWorkbench ==
  TerminalTheme("Light", "f1", <<>>, FALSE, TRUE, "", 0, FALSE)

\* transparency t with a custom CSS string, as resources' "Neon Glow"
Glass(t) ==
  TerminalTheme("Glass", "0a", <<>>, FALSE, FALSE,
                ".terminal { text-shadow: 0 0 10px #00ff41; }", t, FALSE)

\* transparency t without a custom CSS string
Sheer(t) ==
  TerminalTheme("Sheer", "f1", <<>>, FALSE, FALSE, "", t, FALSE)

Themes ==
  {TerminalOnly, FullEditor, TypedEditor, UnusedEditor, Fallback,
   FallbackEditor, FallbackWorkbench} \cup
  {Glass(t) : t \in Transparencies} \cup
  {Sheer(t) : t \in Transparencies \ {0}}

\* a colour customization of the user's own, which no theme writes
UnrelatedColors == "editorError.foreground" :> "#ff0000"

(***************************************************************************)
(* State.                                                                  *)
(***************************************************************************)
VARIABLES
  settings,            \* the host's settings store
  globalState,         \* the extension's globalState: savedThemes
                       \* ("vibestudio.savedThemes"), backups
                       \* ("termistyle.backups"), currentTheme
  backups,             \* ThemeManager.backups
  pushed,              \* every backup createBackup has unshifted, the most
                       \* recent first
  calls,               \* the invocations followed step by step, in the
                       \* order they were started
  now,                 \* the clock
  config,              \* AutoSwitcher.config
  timer,               \* AutoSwitcher.timer: <<>> or <<handle>>
  systemThemeWatcher,  \* AutoSwitcher.systemThemeWatcher: <<>> or <<handle>>
  intervals,           \* interval handles the host will still fire
  listeners,           \* configuration-change subscriptions not disposed
  changeEvents,        \* subscriptions with a change of
                       \* workbench.colorTheme still to be notified
  evals,               \* evaluations suspended at their store lookup
  saving,              \* saveConfig's writes the host has not landed yet
  hour,                \* the wall clock's hour of day
  currentTheme,        \* ThemeCustomizer.currentTheme: <<>> (null) or
                       \* <<document>>
  files,               \* the file system: <<>> or <<content>> by path
  imported,            \* what the last importTheme returned (an ImportedTheme)
                       \* or threw ([error |-> message])
  io,                  \* the file operations of the last export or import
  ops,                 \* operations the environment has started
  last                 \* the last operation completed, and the store and
                       \* ring it started on

engineVars == <<settings, globalState, backups, pushed>>
schedVars == <<config, timer, systemThemeWatcher, intervals, listeners,
               evals, saving>>
panelVars == <<currentTheme, files, imported, io>>
vars == <<settings, globalState, backups, pushed, calls, now, config, timer,
          systemThemeWatcher, intervals, listeners, changeEvents, evals,
          saving, hour, currentTheme, files, imported, io, ops, last>>

ColorCustomizations(s) == ConfigGet(s, "workbench.colorCustomizations", EmptyMap)

\* AutoSwitcher.loadConfig (AutoSwitcher.ts 263-274)
LoadConfig(s) ==
  [ enabled |-> ConfigGet(s, "termistyle.autoSwitch.enabled", FALSE),
    mode |-> ConfigGet(s, "termistyle.autoSwitch.mode", "system"),
    lightTheme |-> ConfigGet(s, "termistyle.autoSwitch.lightTheme", ""),
    darkTheme |-> ConfigGet(s, "termistyle.autoSwitch.darkTheme", ""),
    lightHour |-> ConfigGet(s, "termistyle.autoSwitch.lightHour", 6),
    darkHour |-> ConfigGet(s, "termistyle.autoSwitch.darkHour", 18) ]

NoOperation == [op |-> "none", theme |-> <<>>]

\* the paths of the files exported to and imported from: a base name and
\* the extension path.extname gives, in lower case
Paths ==
  {[base |-> "theme", ext |-> ext] : ext \in {".termistyle", ".json", ".yml"}}

\* a file system holding none of them
NoFiles == [path \in Paths |-> <<>>]

\* before any importTheme
NotImported == [error |-> "none"]

\* the scheduler before any call of enable() or disable()
Idle == "idle"

\* the record of a completed operation op (on document theme, if any) that
\* ended with result: the store, ring and globalState it started on, its
\* time and hour, the operation before it, which of enable() and disable()
\* returned last, and the argument of a restoreBackup
Completed(op, theme, result) ==
  [ op |-> op, theme |-> theme, result |-> result, time |-> now,
    hour |-> hour, settings |-> settings, backups |-> backups,
    globalState |-> globalState, switch |-> last.switch,
    prev |-> [op |-> last.op, theme |-> last.theme],
    argument |-> <<>> ]

InitialSettings(colors) ==
  [k \in SettingKeys |->
     IF k = "workbench.colorCustomizations" THEN colors ELSE <<>>]

Init ==
  /\ \E colors \in {<<>>, <<UnrelatedColors>>} : settings = InitialSettings(colors)
  /\ globalState = [savedThemes |-> <<>>, backups |-> <<>>, currentTheme |-> <<>>]
  /\ backups = <<>>
  /\ pushed = <<>>
  /\ calls = <<>>
  /\ now = 1
  /\ config = LoadConfig(InitialSettings(<<>>))
  /\ timer = <<>>
  /\ systemThemeWatcher = <<>>
  /\ intervals = {}
  /\ listeners = {}
  /\ changeEvents = {}
  /\ evals = <<>>
  /\ saving = <<>>
  /\ hour = 0
  /\ currentTheme = <<>>
  /\ files = NoFiles
  /\ imported = NotImported
  /\ io = <<>>
  /\ ops = 0
  /\ last = [ op |-> "none", theme |-> <<>>, result |-> "ok", time |-> 1,
              hour |-> 0, settings |-> settings, backups |-> <<>>,
              globalState |-> globalState, switch |-> Idle,
              prev |-> NoOperation, argument |-> <<>> ]

(***************************************************************************)
(* ThemeManager's operations, each run to completion.                      *)
(***************************************************************************)
\* Notify telling the subscriptions of a base theme that was set, and not of
\* one that was cleared
NotifyOfSetOnly(s, t) ==
  changeEvents' =
    IF t["workbench.colorTheme"] # s["workbench.colorTheme"]
         /\ t["workbench.colorTheme"] # <<>>
      THEN changeEvents \cup listeners
      ELSE changeEvents

\* a change of workbench.colorTheme from store s to store t is to be
\* notified to every subscription there is (the callbacks of changes of
\* other settings return at AutoSwitcher.ts 213 and are left out)
Notify(s, t) ==
  changeEvents' =
    IF t["workbench.colorTheme"] # s["workbench.colorTheme"]
      THEN changeEvents \cup listeners
      ELSE changeEvents

\* createBackup (ThemeManager.ts 615-642)
CreateBackupEffect ==
  /\ backups' = Pushed(backups, NewBackup(settings, now))
  /\ pushed' = <<NewBackup(settings, now)>> \o pushed
  /\ globalState' = [globalState EXCEPT !.backups = backups']

\* applyTheme (ThemeManager.ts 288-547)
ApplyThemeEffect(theme) ==
  LET backupEnabled == ConfigGet(settings, "vibestudio.backup.enabled", TRUE)
      ring == IF backupEnabled
                THEN Pushed(backups, NewBackup(settings, now))
                ELSE backups
  IN /\ backups' = ring
     /\ pushed' = IF backupEnabled
                    THEN <<NewBackup(settings, now)>> \o pushed
                    ELSE pushed
     /\ settings' = ApplyThemeWrites(settings, theme)
     /\ globalState' =
          [globalState EXCEPT !.backups = IF backupEnabled THEN ring ELSE @,
                              !.currentTheme = <<theme>>]
     /\ Notify(settings, settings')

\* the applyTheme message of the panel, carrying a document
\* (ThemeCustomizer.ts 124-129)
ApplyTheme(theme) ==
  /\ ops < MaxOps
  /\ ApplyThemeEffect(theme)
  /\ ops' = ops + 1
  /\ last' = Completed("applyTheme", <<theme>>, "ok")
  /\ UNCHANGED <<calls, now, schedVars, hour, panelVars>>

\* ResetToDefaultWrites with the terminal font size set to 14, as the
\* colours-only reset sets it
ResetToDefaultWritesFontSize14(s) ==
  [s EXCEPT !["workbench.colorTheme"] = <<"Dark+">>,
            !["workbench.colorCustomizations"] = <<EmptyMap>>,
            !["editor.tokenColorCustomizations"] = <<EmptyMap>>,
            !["terminal.integrated.fontFamily"] = <<>>,
            !["terminal.integrated.fontSize"] = <<14>>,
            !["terminal.integrated.fontWeight"] = <<>>,
            !["terminal.integrated.lineHeight"] = <<>>,
            !["terminal.integrated.cursorStyle"] = <<>>,
            !["terminal.integrated.cursorBlinking"] = <<>>]

\* the settings resetToDefault leaves (ThemeManager.ts 576-586)
ResetToDefaultWrites(s) ==
  [s EXCEPT !["workbench.colorTheme"] = <<"Dark+">>,
            !["workbench.colorCustomizations"] = <<EmptyMap>>,
            !["editor.tokenColorCustomizations"] = <<EmptyMap>>,
            !["terminal.integrated.fontFamily"] = <<>>,
            !["terminal.integrated.fontSize"] = <<>>,
            !["terminal.integrated.fontWeight"] = <<>>,
            !["terminal.integrated.lineHeight"] = <<>>,
            !["terminal.integrated.cursorStyle"] = <<>>,
            !["terminal.integrated.cursorBlinking"] = <<>>]

\* resetToDefault (ThemeManager.ts 568-592)
ResetToDefault ==
  /\ ops < MaxOps
  /\ CreateBackupEffect
  /\ settings' = ResetToDefaultWrites(settings)
  /\ Notify(settings, settings')
  /\ ops' = ops + 1
  /\ last' = Completed("resetToDefault", <<>>, "ok")
  /\ UNCHANGED <<calls, now, schedVars, hour, panelVars>>

\* the settings resetToDefaultColors leaves (ThemeManager.ts 602-607)
ResetToDefaultColorsWrites(s) ==
  [s EXCEPT !["workbench.colorTheme"] = <<>>,
            !["workbench.colorCustomizations"] = <<EmptyMap>>,
            !["editor.tokenColorCustomizations"] = <<EmptyMap>>,
            !["terminal.integrated.fontSize"] = <<14>>]

\* resetToDefaultColors (ThemeManager.ts 594-613), the panel's resetTheme
ResetToDefaultColors ==
  /\ ops < MaxOps
  /\ CreateBackupEffect
  /\ settings' = ResetToDefaultColorsWrites(settings)
  /\ Notify(settings, settings')
  /\ ops' = ops + 1
  /\ last' = Completed("resetToDefaultColors", <<>>, "ok")
  /\ UNCHANGED <<calls, now, schedVars, hour, panelVars>>

\* restoreBackup's lookup: the first backup of the ring with the timestamp
FindBackup(ring, timestamp) ==
  LET found == {i \in 1..Len(ring) : ring[i].timestamp = timestamp}
  IN IF found = {} THEN <<>>
     ELSE <<ring[CHOOSE i \in found : \A j \in found : i <= j]>>

\* RestoreWrites restoring the terminal.integrated settings of the snapshot
\* only
RestoreWritesTerminalOnly(s, backup) ==
  [k \in DOMAIN s |->
     IF k \in DOMAIN backup.settings
          /\ k \notin {"workbench.colorTheme", "workbench.colorCustomizations"}
       THEN backup.settings[k] ELSE s[k]]

\* the settings restoreBackup leaves (ThemeManager.ts 653-655)
RestoreWrites(s, backup) ==
  [k \in DOMAIN s |->
     IF k \in DOMAIN backup.settings THEN backup.settings[k] ELSE s[k]]

\* restoreBackup (ThemeManager.ts 644-656)
RestoreBackup(timestamp) ==
  LET backup == FindBackup(backups, timestamp) IN
  /\ ops < MaxOps
  /\ IF backup = <<>>
       THEN /\ UNCHANGED <<settings, changeEvents>>
            /\ last' = [Completed("restoreBackup", <<>>, "Backup not found")
                          EXCEPT !.argument = <<timestamp>>]
       ELSE /\ settings' = RestoreWrites(settings, backup[1])
            /\ Notify(settings, settings')
            /\ last' = [Completed("restoreBackup", <<>>, "ok")
                          EXCEPT !.argument = <<timestamp>>]
  /\ ops' = ops + 1
  /\ UNCHANGED <<globalState, backups, pushed, calls, now, schedVars, hour, panelVars>>

(***************************************************************************)
(* The theme store.                                                        *)
(***************************************************************************)
\* themes.findIndex((t) => t.name === name), 1-based; 0 when there is none
FindIndex(themes, name) ==
  LET found == {i \in 1..Len(themes) : themes[i].name = name}
  IN IF found = {} THEN 0 ELSE CHOOSE i \in found : \A j \in found : i <= j

\* the array saveTheme stores at time t (ThemeManager.ts 51-61)
SavedThemes(themes, theme, t) ==
  LET existingIndex == FindIndex(themes, theme.name)
  IN IF existingIndex >= 1
       THEN [themes EXCEPT ![existingIndex] = [theme EXCEPT !.modified = t]]
       ELSE Append(themes, [theme EXCEPT !.modified = t, !.created = t])

\* the documents saved: two of one name and different content, and a third
StoreThemes == {TerminalOnly, Fallback, FullEditor}

\* saveTheme (ThemeManager.ts 50-64) of a document whose created field holds
\* what its producer put there
SaveTheme(theme, created) ==
  /\ ops < MaxOps
  /\ globalState' =
       [globalState EXCEPT !.savedThemes =
          SavedThemes(@, [theme EXCEPT !.created = created], now)]
  /\ ops' = ops + 1
  /\ last' = Completed("saveTheme", <<theme>>, "ok")
  /\ UNCHANGED <<settings, backups, pushed, calls, now, schedVars,
               changeEvents, hour, panelVars>>

\* the array deleteTheme stores (ThemeManager.ts 67-68)
RECURSIVE Filtered(_, _)
Filtered(themes, name) ==
  IF themes = <<>> THEN <<>>
  ELSE IF Head(themes).name # name
         THEN <<Head(themes)>> \o Filtered(Tail(themes), name)
         ELSE Filtered(Tail(themes), name)

\* deleteTheme (ThemeManager.ts 66-70)
DeleteTheme(name) ==
  /\ ops < MaxOps
  /\ globalState' = [globalState EXCEPT !.savedThemes = Filtered(@, name)]
  /\ ops' = ops + 1
  /\ last' = Completed("deleteTheme", <<>>, "ok")
  /\ UNCHANGED <<settings, backups, pushed, calls, now, schedVars,
               changeEvents, hour, panelVars>>

(***************************************************************************)
(* The environment: the clock, and the user's own edits of the settings.   *)
(***************************************************************************)
Tick ==
  /\ now < MaxTime
  /\ now' = now + 1
  /\ UNCHANGED <<engineVars, calls, schedVars, changeEvents, hour, panelVars, ops, last>>

\* names of base themes the user picks
BaseThemes == {"Default Light+", "Dark+"}

\* the user writes a setting: backup.enabled, the base theme, or a colour
\* customization of their own
UserEdit ==
  /\ ops < MaxOps
  /\ \/ \E b \in BOOLEAN :
          settings' = [settings EXCEPT !["vibestudio.backup.enabled"] = <<b>>]
     \/ \E name \in BaseThemes :
          settings' = [settings EXCEPT !["workbench.colorTheme"] = <<name>>]
     \/ settings' =
          [settings EXCEPT !["workbench.colorCustomizations"] =
             <<ObjectAssign(ColorCustomizations(settings), UnrelatedColors)>>]
  /\ settings' # settings
  /\ Notify(settings, settings')
  /\ ops' = ops + 1
  /\ last' = Completed("userEdit", <<>>, "ok")
  /\ UNCHANGED <<globalState, backups, pushed, calls, now, schedVars, hour, panelVars>>

(***************************************************************************)
(* AutoSwitcher.  Its fields, and the host's side of them (the intervals  *)
(* the host still fires, the subscriptions it still notifies, the         *)
(* evaluations suspended at getSavedThemes, the writes of saveConfig it   *)
(* has not landed), are passed through the methods as one record.         *)
(***************************************************************************)
Scheduler ==
  [ config |-> config, timer |-> timer,
    systemThemeWatcher |-> systemThemeWatcher, intervals |-> intervals,
    listeners |-> listeners, evals |-> evals, saving |-> saving ]

\* the scheduler's fields become those of a; a notification still due to a
\* subscription that a has disposed is dropped
Becomes(a, events) ==
  /\ config' = a.config
  /\ timer' = a.timer
  /\ systemThemeWatcher' = a.systemThemeWatcher
  /\ intervals' = a.intervals
  /\ listeners' = a.listeners
  /\ evals' = a.evals
  /\ saving' = a.saving
  /\ changeEvents' = events \cap a.listeners

\* the handle of the interval or subscription the call being made creates
NewHandle == ops + 1

\* applyThemeByName up to its await (AutoSwitcher.ts 250-255): an empty
\* name returns, any other suspends with the themes getSavedThemes read
ApplyThemeByName(a, themeName, themes) ==
  IF themeName = ""
    THEN a
    ELSE [a EXCEPT !.evals = Append(@, [name |-> themeName, themes |-> themes])]

\* ShouldUseLightTheme with the dark hour included in the light interval
ShouldUseLightThemeInclusive(currentHour, cfg) ==
  currentHour >= cfg.lightHour /\ currentHour <= cfg.darkHour

\* applyTimeBasedTheme's comparison (AutoSwitcher.ts 231)
ShouldUseLightTheme(currentHour, cfg) ==
  currentHour >= cfg.lightHour /\ currentHour < cfg.darkHour

\* the name applyTimeBasedTheme resolves (AutoSwitcher.ts 231-232)
TimeBasedThemeName(currentHour, cfg) ==
  IF ShouldUseLightTheme(currentHour, cfg) THEN cfg.lightTheme ELSE cfg.darkTheme

\* applyTimeBasedTheme (AutoSwitcher.ts 227-235)
ApplyTimeBasedTheme(a, currentHour, themes) ==
  ApplyThemeByName(a, TimeBasedThemeName(currentHour, a.config), themes)

\* the base theme names of the model whose lower case contains "light" or
\* "day" (AutoSwitcher.ts 243)
IsLightTheme(colorTheme) == colorTheme \in {"Default Light+", "Solarized Day"}

\* the name applySystemTheme resolves from the store s (AutoSwitcher.ts
\* 239-245)
SystemThemeName(s, cfg) ==
  IF IsLightTheme(ConfigGet(s, "workbench.colorTheme", ""))
    THEN cfg.lightTheme
    ELSE cfg.darkTheme

\* applySystemTheme (AutoSwitcher.ts 237-248)
ApplySystemTheme(a, s, themes) ==
  ApplyThemeByName(a, SystemThemeName(s, a.config), themes)

\* stopTimeBasedSwitching forgetting the handle without clearInterval
StopTimeBasedSwitchingForgetting(a) ==
  [a EXCEPT !.timer = <<>>]

\* stopTimeBasedSwitching (AutoSwitcher.ts 198-203)
StopTimeBasedSwitching(a) ==
  IF a.timer # <<>>
    THEN [a EXCEPT !.intervals = @ \ {a.timer[1]}, !.timer = <<>>]
    ELSE a

\* startTimeBasedSwitching (AutoSwitcher.ts 186-196) creating interval h
StartTimeBasedSwitching(a, h, currentHour, themes) ==
  LET evaluated == ApplyTimeBasedTheme(StopTimeBasedSwitching(a), currentHour, themes)
  IN [evaluated EXCEPT !.intervals = @ \cup {h}, !.timer = <<h>>]

\* stopSystemBasedSwitching (AutoSwitcher.ts 220-225)
StopSystemBasedSwitching(a) ==
  IF a.systemThemeWatcher # <<>>
    THEN [a EXCEPT !.listeners = @ \ {a.systemThemeWatcher[1]},
                   !.systemThemeWatcher = <<>>]
    ELSE a

\* startSystemBasedSwitching (AutoSwitcher.ts 205-218) creating
\* subscription h
StartSystemBasedSwitching(a, h, s, themes) ==
  LET evaluated == ApplySystemTheme(StopSystemBasedSwitching(a), s, themes)
  IN [evaluated EXCEPT !.listeners = @ \cup {h}, !.systemThemeWatcher = <<h>>]

\* saveConfig (AutoSwitcher.ts 276-279): the update is not awaited
SaveConfig(a) == [a EXCEPT !.saving = Append(@, a.config.enabled)]

\* enable (AutoSwitcher.ts 24-33)
EnableEffect(a, h, s, currentHour, themes) ==
  LET started ==
        IF a.config.mode = "time"
          THEN StartTimeBasedSwitching(a, h, currentHour, themes)
          ELSE IF a.config.mode = "system"
                 THEN StartSystemBasedSwitching(a, h, s, themes)
                 ELSE a
  IN SaveConfig([started EXCEPT !.config.enabled = TRUE])

\* disable cancelling the evaluations that are suspended
DisableEffectCancelling(a) ==
  LET stopped == StopSystemBasedSwitching(StopTimeBasedSwitching(a))
  IN SaveConfig([stopped EXCEPT !.config.enabled = FALSE, !.evals = <<>>])

\* disable (AutoSwitcher.ts 35-41)
DisableEffect(a) ==
  LET stopped == StopSystemBasedSwitching(StopTimeBasedSwitching(a))
  IN SaveConfig([stopped EXCEPT !.config.enabled = FALSE])

\* onConfigurationChanged (AutoSwitcher.ts 47-54)
OnConfigurationChangedEffect(a, h, s, currentHour, themes) ==
  LET loaded == [a EXCEPT !.config = LoadConfig(s)]
  IN IF loaded.config.enabled
       THEN EnableEffect(DisableEffect(loaded), h, s, currentHour, themes)
       ELSE loaded

\* which of enable() and disable() a call that took the scheduler from a to
\* b ended with
Switched(a, b) ==
  IF Len(b.saving) > Len(a.saving)
    THEN IF b.saving[Len(b.saving)] THEN "enabled" ELSE "disabled"
    ELSE last.switch

\* a method call of the environment that takes the scheduler to b
Call(op, b) ==
  /\ ops < MaxCalls
  /\ Becomes(b, changeEvents)
  /\ ops' = ops + 1
  /\ last' = [Completed(op, <<>>, "ok") EXCEPT !.switch = Switched(Scheduler, b)]
  /\ UNCHANGED <<engineVars, calls, now, hour, panelVars>>

\* initialize (AutoSwitcher.ts 18-22)
Initialize ==
  Call("initialize",
       IF config.enabled
         THEN EnableEffect(Scheduler, NewHandle, settings, hour,
                           globalState.savedThemes)
         ELSE Scheduler)

Enable ==
  Call("enable",
       EnableEffect(Scheduler, NewHandle, settings, hour, globalState.savedThemes))

Disable == Call("disable", DisableEffect(Scheduler))

\* dispose cancelling the timer and the subscription without disable()'s
\* write of the configuration
DisposeStoppingOnly ==
  Call("dispose", StopSystemBasedSwitching(StopTimeBasedSwitching(Scheduler)))

\* dispose (AutoSwitcher.ts 281-283)
Dispose == Call("dispose", DisableEffect(Scheduler))

OnConfigurationChanged ==
  Call("onConfigurationChanged",
       OnConfigurationChangedEffect(Scheduler, NewHandle, settings, hour,
                                    globalState.savedThemes))

\* checkSystemTheme (AutoSwitcher.ts 180-184)
CheckSystemTheme ==
  Call("checkSystemTheme",
       IF config.enabled /\ config.mode = "system"
         THEN ApplySystemTheme(Scheduler, settings, globalState.savedThemes)
         ELSE Scheduler)

\* the settings setupAutoSwitch writes (AutoSwitcher.ts 149-155)
SetupWrites(s, mode, lightTheme, darkTheme, lightHour, darkHour) ==
  [s EXCEPT !["termistyle.autoSwitch.enabled"] = <<TRUE>>,
            !["termistyle.autoSwitch.mode"] = <<mode>>,
            !["termistyle.autoSwitch.lightTheme"] = <<lightTheme>>,
            !["termistyle.autoSwitch.darkTheme"] = <<darkTheme>>,
            !["termistyle.autoSwitch.lightHour"] = <<lightHour>>,
            !["termistyle.autoSwitch.darkHour"] = <<darkHour>>]

\* the hours the user enters for the time mode
SetupHours == {<<6, 18>>}

\* setupAutoSwitch (AutoSwitcher.ts 56-162) with the user's picks: a light
\* theme of the store, a dark theme among the others, a mode, and for the
\* time mode the two hours; a user who dismisses a pick leaves everything
\* as it is
SetupAutoSwitch ==
  /\ ops < MaxCalls
  /\ \/ /\ UNCHANGED <<settings, schedVars, changeEvents>>
        /\ last' = Completed("setupAutoSwitch", <<>>, "dismissed")
     \/ \E i, j \in 1..Len(globalState.savedThemes), mode \in {"system", "time"},
           hours \in SetupHours :
          LET themes == globalState.savedThemes
              written ==
                SetupWrites(settings, mode, themes[i].name, themes[j].name,
                            IF mode = "time" THEN hours[1] ELSE 6,
                            IF mode = "time" THEN hours[2] ELSE 18)
              loaded == [Scheduler EXCEPT !.config = LoadConfig(written)]
              b == EnableEffect(loaded, NewHandle, written, hour, themes)
          IN /\ themes[j].name # themes[i].name
             /\ mode = "system" => hours = <<6, 18>>
             /\ settings' = written
             /\ Becomes(b, changeEvents)
             /\ last' = [Completed("setupAutoSwitch", <<>>, "ok")
                           EXCEPT !.switch = "enabled"]
  /\ ops' = ops + 1
  /\ UNCHANGED <<globalState, backups, pushed, calls, now, hour, panelVars>>

\* the host fires an interval it has not cleared: the callback of
\* AutoSwitcher.ts 193-195
TimerFires ==
  /\ intervals # {}
  /\ Len(evals) + Len(pushed) < MaxEvals
  /\ Becomes(ApplyTimeBasedTheme(Scheduler, hour, globalState.savedThemes),
             changeEvents)
  /\ last' = Completed("timerFires", <<>>, TimeBasedThemeName(hour, config))
  /\ UNCHANGED <<engineVars, calls, now, hour, panelVars, ops>>

\* the host notifies a subscription it has not disposed of a change of
\* workbench.colorTheme: the callback of AutoSwitcher.ts 212-216
ChangeNotified ==
  /\ \E h \in changeEvents \cap listeners :
       Becomes(ApplySystemTheme(Scheduler, settings, globalState.savedThemes),
               changeEvents \ {h})
  /\ last' = Completed("changeNotified", <<>>, SystemThemeName(settings, config))
  /\ UNCHANGED <<engineVars, calls, now, hour, panelVars, ops>>

\* Find handing out the first theme of the store when the name is in none
FindOrFirst(themes, themeName) ==
  IF FindIndex(themes, themeName) = 0
    THEN IF themes = <<>> THEN <<>> ELSE <<themes[1]>>
    ELSE <<themes[FindIndex(themes, themeName)]>>

\* themes.find((t) => t.name === themeName): <<>> when there is none
Find(themes, themeName) ==
  IF FindIndex(themes, themeName) = 0
    THEN <<>>
    ELSE <<themes[FindIndex(themes, themeName)]>>

\* a suspended evaluation resumes (AutoSwitcher.ts 256-260): the theme of
\* its name, if the themes it read hold one, is applied
Evaluation ==
  /\ evals # <<>>
  /\ LET theme == Find(Head(evals).themes, Head(evals).name)
     IN IF theme = <<>>
          THEN UNCHANGED <<engineVars, changeEvents>>
          ELSE ApplyThemeEffect(theme[1])
  /\ last' = Completed("evaluation",
                       Find(Head(evals).themes, Head(evals).name),
                       Head(evals).name)
  /\ evals' = Tail(evals)
  /\ UNCHANGED <<calls, now, config, timer, systemThemeWatcher, intervals,
                 listeners, saving, hour, panelVars, ops>>

\* the host lands the oldest write of saveConfig
SaveConfigLands ==
  /\ saving # <<>>
  /\ settings' =
       [settings EXCEPT !["termistyle.autoSwitch.enabled"] = <<Head(saving)>>]
  /\ saving' = Tail(saving)
  /\ last' = Completed("saveConfigLands", <<>>, "ok")
  /\ UNCHANGED <<globalState, backups, pushed, calls, now, config, timer,
                 systemThemeWatcher, intervals, listeners, changeEvents,
                 evals, hour, panelVars, ops>>

\* the user changes the base theme
BaseThemeEdit ==
  /\ ops < MaxCalls
  /\ \E name \in BaseThemes :
       settings' = [settings EXCEPT !["workbench.colorTheme"] = <<name>>]
  /\ settings' # settings
  /\ Notify(settings, settings')
  /\ ops' = ops + 1
  /\ last' = Completed("userEdit", <<>>, "ok")
  /\ UNCHANGED <<globalState, backups, pushed, calls, now, schedVars, hour, panelVars>>

\* the documents of the scheduler's store as saveTheme stored them
StoredTheme(theme) == [theme EXCEPT !.created = 1, !.modified = 1]

\* a store with a settings file the user wrote the auto-switch keys of
SchedulerSettings(mode, lightTheme, darkTheme, lightHour, darkHour, colorTheme) ==
  [k \in SettingKeys |->
     CASE k = "termistyle.autoSwitch.mode" -> <<mode>>
       [] k = "termistyle.autoSwitch.lightTheme" -> lightTheme
       [] k = "termistyle.autoSwitch.darkTheme" -> <<darkTheme>>
       [] k = "termistyle.autoSwitch.lightHour" -> lightHour
       [] k = "termistyle.autoSwitch.darkHour" -> darkHour
       [] k = "workbench.colorTheme" -> colorTheme
       [] OTHER -> <<>>]

\* the state a new AutoSwitcher is constructed in (AutoSwitcher.ts 12-16),
\* on the store s with the themes saved
Constructed(s, themes, h) ==
  /\ settings = s
  /\ globalState = [savedThemes |-> themes, backups |-> <<>>,
                    currentTheme |-> <<>>]
  /\ backups = <<>>
  /\ pushed = <<>>
  /\ calls = <<>>
  /\ now = 1
  /\ config = LoadConfig(s)
  /\ timer = <<>>
  /\ systemThemeWatcher = <<>>
  /\ intervals = {}
  /\ listeners = {}
  /\ changeEvents = {}
  /\ evals = <<>>
  /\ saving = <<>>
  /\ hour = h
  /\ currentTheme = <<>>
  /\ files = NoFiles
  /\ imported = NotImported
  /\ io = <<>>
  /\ ops = 0
  /\ last = [ op |-> "none", theme |-> <<>>, result |-> "ok", time |-> 1,
              hour |-> h, settings |-> s, backups |-> <<>>,
              globalState |-> globalState, switch |-> Idle,
              prev |-> NoOperation, argument |-> <<>> ]

\* the scheduler's store: a dark and a light document
SchedulerThemes ==
  << StoredTheme(TerminalOnly),
     StoredTheme(TerminalTheme("Light", "f1", <<>>, FALSE, FALSE, "", 0, FALSE)) >>

\* by day the hour is 12 and the base theme a light one, by night the hour
\* is 3 and the base theme the host's default
InitSched ==
  \E mode \in {"time", "system"}, lightTheme \in {<<>>, <<"Light">>},
     darkTheme \in {"Dark", "Missing"}, day \in BOOLEAN :
    Constructed(SchedulerSettings(mode, lightTheme, darkTheme, <<>>, <<>>,
                                  IF day THEN <<"Default Light+">> ELSE <<>>),
                SchedulerThemes, IF day THEN 12 ELSE 3)

NextSched ==
  \/ Initialize
  \/ Enable
  \/ Disable
  \/ Dispose
  \/ OnConfigurationChanged
  \/ CheckSystemTheme
  \/ SetupAutoSwitch
  \/ TimerFires
  \/ ChangeNotified
  \/ Evaluation
  \/ SaveConfigLands
  \/ BaseThemeEdit

SpecSched == InitSched /\ [][NextSched]_vars

(***************************************************************************)
(* The time mode at every hour and every pair of switching hours.         *)
(***************************************************************************)
Hours == 0..23

\* a scheduler the user enabled for the time mode, constructed at hour h
InitTime ==
  \E h \in Hours, lightHour \in Hours, darkHour \in Hours :
    Constructed([SchedulerSettings("time", <<"Light">>, "Dark", <<lightHour>>,
                                   <<darkHour>>, <<>>)
                   EXCEPT !["termistyle.autoSwitch.enabled"] = <<TRUE>>],
                SchedulerThemes, h)

\* initialize() enables the time mode, which evaluates at once
NextTime ==
  \/ Initialize
  \/ Evaluation

SpecTime == InitTime /\ [][NextTime]_vars

(***************************************************************************)
(* The backup ring on its own.                                             *)
(***************************************************************************)
\* backups pushed in one behaviour of the ring
MaxPushes == 15

\* createBackup called on its own (ThemeManager.ts 615-642)
CreateBackup ==
  /\ Len(pushed) < MaxPushes
  /\ CreateBackupEffect
  /\ last' = Completed("createBackup", <<>>, "ok")
  /\ UNCHANGED <<settings, calls, now, schedVars, changeEvents, hour, panelVars, ops>>

\* an applyTheme between the backups, which changes what the next ones
\* capture
RingApply ==
  /\ Len(pushed) < MaxPushes
  /\ ApplyThemeEffect(TerminalOnly)
  /\ last' = Completed("applyTheme", <<TerminalOnly>>, "ok")
  /\ UNCHANGED <<calls, now, schedVars, hour, panelVars, ops>>

NextRing ==
  \/ CreateBackup
  \/ RingApply
  \/ Tick

SpecRing == Init /\ [][NextRing]_vars

(***************************************************************************)
(* applyTheme and the two resets followed from await to await.  A call is *)
(* at "backup" (createBackup suspended at getCurrentTheme), at "persist"  *)
(* (suspended at globalState.update), at "update" (about to make the      *)
(* update numbered idx), at "finish" (about to store currentTheme), or    *)
(* has ended: "done", or "failed" when the backup was rejected.           *)
(***************************************************************************)
\* FirstStep going to the updates at once
FirstStepSkipping(op, backupEnabled) == "update"

\* where a call suspends first: applyTheme skips the backup when
\* backup.enabled is false (ThemeManager.ts 290-292), the resets never do
\* (571, 597)
FirstStep(op, backupEnabled) ==
  IF op = "applyTheme" /\ ~backupEnabled THEN "update" ELSE "backup"

\* the updates applyTheme awaits before it reads the document's colours
\* (ThemeManager.ts 297-309), each by the key it writes
DiscreteSteps ==
  << "workbench.colorTheme", "terminal.integrated.fontFamily",
     "terminal.integrated.fontSize", "terminal.integrated.fontWeight",
     "terminal.integrated.lineHeight", "terminal.integrated.cursorStyle",
     "terminal.integrated.cursorBlinking" >>

\* the updates applyTheme awaits before applyCustomEffects (ThemeManager.ts
\* 297-538)
StepsBeforeEffects(theme) ==
  DiscreteSteps
  \o (IF theme.integration.applyToEditor /\ theme.editorTheme # <<>>
        THEN <<"editor.tokenColorCustomizations">> ELSE <<>>)
  \o <<"workbench.colorCustomizations">>
  \o (IF theme.font.ligatures THEN <<"editor.fontLigatures">> ELSE <<>>)

\* the updates applyTheme awaits one after the other (ThemeManager.ts
\* 297-543), each by the key it writes; "customEffects" is the update of
\* applyCustomEffects
ApplyThemeSteps(theme) ==
  StepsBeforeEffects(theme)
  \o (IF theme.integration.customCss # "" /\ theme.effects.transparency > 0
        THEN <<"customEffects">> ELSE <<>>)

\* the store after applyTheme's update step of the store s; read is the
\* configuration object applyTheme took at line 294, applyCustomEffects
\* takes its own (line 555)
ApplyThemeStep(s, read, theme, step) ==
  CASE step = "workbench.colorTheme" -> [s EXCEPT ![step] = <<>>]
    [] step = "terminal.integrated.fontFamily" ->
         [s EXCEPT ![step] = <<theme.font.family>>]
    [] step = "terminal.integrated.fontSize" ->
         [s EXCEPT ![step] = <<theme.font.size>>]
    [] step = "terminal.integrated.fontWeight" ->
         [s EXCEPT ![step] = <<theme.font.weight>>]
    [] step = "terminal.integrated.lineHeight" ->
         [s EXCEPT ![step] = <<theme.font.lineHeight>>]
    [] step = "terminal.integrated.cursorStyle" ->
         [s EXCEPT ![step] = <<theme.cursor.style>>]
    [] step = "terminal.integrated.cursorBlinking" ->
         [s EXCEPT ![step] = <<theme.cursor.blinking>>]
    [] step = "editor.tokenColorCustomizations" ->
         [s EXCEPT ![step] = <<TokenColorCustomizations(theme)>>]
    [] step = "workbench.colorCustomizations" ->
         [s EXCEPT ![step] =
            <<Stored(MergedColorCustomizations(theme, ColorCustomizations(read)))>>]
    [] step = "editor.fontLigatures" -> [s EXCEPT ![step] = <<TRUE>>]
    [] step = "customEffects" ->
         [s EXCEPT !["workbench.colorCustomizations"] =
            <<CustomEffectsColorMap(theme, ColorCustomizations(s))>>]

\* the updates resetToDefault awaits (ThemeManager.ts 576-586)
ResetToDefaultSteps ==
  << "workbench.colorTheme", "workbench.colorCustomizations",
     "editor.tokenColorCustomizations", "terminal.integrated.fontFamily",
     "terminal.integrated.fontSize", "terminal.integrated.fontWeight",
     "terminal.integrated.lineHeight", "terminal.integrated.cursorStyle",
     "terminal.integrated.cursorBlinking" >>

\* the updates resetToDefaultColors awaits (ThemeManager.ts 602-607)
ResetToDefaultColorsSteps ==
  << "workbench.colorTheme", "workbench.colorCustomizations",
     "editor.tokenColorCustomizations", "terminal.integrated.fontSize" >>

\* the updates of the call c
Steps(c) ==
  CASE c.op = "applyTheme" -> ApplyThemeSteps(c.theme[1])
    [] c.op = "resetToDefault" -> ResetToDefaultSteps
    [] c.op = "resetToDefaultColors" -> ResetToDefaultColorsSteps

\* the store after the update step of the call c
StepWrite(s, c, step) ==
  CASE c.op = "applyTheme" -> ApplyThemeStep(s, c.read, c.theme[1], step)
    [] c.op = "resetToDefault" ->
         [s EXCEPT ![step] = ResetToDefaultWrites(s)[step]]
    [] c.op = "resetToDefaultColors" ->
         [s EXCEPT ![step] = ResetToDefaultColorsWrites(s)[step]]

\* a call starts and runs to its first await
Begin(op, theme) ==
  /\ ops < MaxOps
  /\ calls' = Append(calls,
       [ op |-> op, theme |-> theme,
         pc |-> FirstStep(op, ConfigGet(settings, "vibestudio.backup.enabled", TRUE)),
         entry |-> settings, read |-> settings, idx |-> 1, writes |-> 0 ])
  /\ ops' = ops + 1
  /\ UNCHANGED <<engineVars, now, schedVars, changeEvents, hour, panelVars, last>>

\* the documents applied step by step
AsyncThemes == {TerminalOnly, Glass(50)}

BeginApplyTheme == \E theme \in AsyncThemes : Begin("applyTheme", <<theme>>)

BeginResetToDefault == Begin("resetToDefault", <<>>)

BeginResetToDefaultColors == Begin("resetToDefaultColors", <<>>)

\* createBackup resumes after getCurrentTheme: the backup of the settings
\* read at line 616 is unshifted and the ring truncated (lines 619-639)
BackupPush ==
  \E i \in 1..Len(calls) :
  /\ calls[i].pc = "backup"
  /\ backups' = Pushed(backups, NewBackup(calls[i].entry, now))
  /\ pushed' = <<NewBackup(calls[i].entry, now)>> \o pushed
  /\ calls' = [calls EXCEPT ![i].pc = "persist"]
  /\ UNCHANGED <<settings, globalState, now, schedVars, changeEvents, hour, panelVars,
                 ops, last>>

\* saveBackups' update (line 667) succeeds: the call goes on to take its
\* configuration object (lines 294, 573, 599)
BackupPersist ==
  \E i \in 1..Len(calls) :
  /\ calls[i].pc = "persist"
  /\ globalState' = [globalState EXCEPT !.backups = backups]
  /\ calls' = [calls EXCEPT ![i].pc = "update", ![i].read = settings]
  /\ UNCHANGED <<settings, backups, pushed, now, schedVars, changeEvents,
                 hour, panelVars, ops, last>>

\* saveBackups' update is rejected: applyTheme rejects, a reset reports the
\* error (lines 589-591, 610-612)
BackupFails ==
  \E i \in 1..Len(calls) :
  /\ calls[i].pc = "persist"
  /\ calls' = [calls EXCEPT ![i].pc = "failed"]
  /\ last' = Completed(calls[i].op, calls[i].theme, "error")
  /\ UNCHANGED <<engineVars, now, schedVars, changeEvents, hour, panelVars, ops>>

\* the next update of a call lands
Update ==
  \E i \in 1..Len(calls) :
  LET c == calls[i]
      final == c.idx = Len(Steps(c))
  IN /\ c.pc = "update"
     /\ settings' = StepWrite(settings, c, Steps(c)[c.idx])
     /\ Notify(settings, settings')
     /\ calls' = [calls EXCEPT
                    ![i].idx = @ + 1,
                    ![i].writes = @ + 1,
                    ![i].pc = IF ~final THEN "update"
                              ELSE IF c.op = "applyTheme" THEN "finish"
                              ELSE "done"]
     /\ last' = IF final /\ c.op # "applyTheme"
                  THEN Completed(c.op, <<>>, "ok")
                  ELSE last
     /\ UNCHANGED <<globalState, backups, pushed, now, schedVars, hour, panelVars, ops>>

\* applyTheme stores the document as currentTheme (line 546) and returns
Finish ==
  \E i \in 1..Len(calls) :
  /\ calls[i].pc = "finish"
  /\ globalState' = [globalState EXCEPT !.currentTheme = calls[i].theme]
  /\ calls' = [calls EXCEPT ![i].pc = "done"]
  /\ last' = Completed("applyTheme", calls[i].theme, "ok")
  /\ UNCHANGED <<settings, backups, pushed, now, schedVars, changeEvents,
                 hour, panelVars, ops>>

\* the user turns backup-on-apply off or on
BackupPolicyEdit ==
  /\ ops < MaxOps
  /\ \E b \in BOOLEAN :
       settings' = [settings EXCEPT !["vibestudio.backup.enabled"] = <<b>>]
  /\ settings' # settings
  /\ ops' = ops + 1
  /\ last' = Completed("userEdit", <<>>, "ok")
  /\ UNCHANGED <<globalState, backups, pushed, calls, now, schedVars,
                 changeEvents, hour, panelVars>>

NextAsync ==
  \/ BeginApplyTheme
  \/ BeginResetToDefault
  \/ BeginResetToDefaultColors
  \/ BackupPush
  \/ BackupPersist
  \/ BackupFails
  \/ Update
  \/ Finish
  \/ BackupPolicyEdit

SpecAsync == Init /\ [][NextAsync]_vars

(***************************************************************************)
(* getCurrentTheme: the document read back from the settings.              *)
(***************************************************************************)
\* object[key] || default: the default for a key the object lacks and for
\* an empty string
OrDefault(object, key, default) ==
  IF key \in DOMAIN object /\ object[key] # "" THEN object[key] ELSE default

\* the prefixes getCurrentTheme looks for (ThemeManager.ts 78-86), as the
\* first segment of a key of the maps modelled
EditorPrefixes == {"editor", "activityBar", "sideBar", "statusBar", "titleBar", "tab"}

\* the keys of the model that start with one of the prefixes followed by a
\* dot: the keys of EditorColors of those surfaces, and the fallbacks'
PrefixedKeys ==
  { "editor.background", "editor.foreground", "editor.selectionBackground",
    "editor.selectionForeground", "editor.lineHighlightBackground",
    "activityBar.background", "activityBar.foreground",
    "activityBar.inactiveForeground", "activityBar.border",
    "activityBar.activeBorder", "activityBar.activeBackground",
    "sideBar.background", "sideBar.foreground", "sideBar.border",
    "statusBar.background", "statusBar.foreground", "statusBar.border",
    "statusBar.debuggingBackground", "statusBar.debuggingForeground",
    "statusBar.noFolderBackground", "statusBar.noFolderForeground",
    "titleBar.activeBackground", "titleBar.activeForeground",
    "titleBar.inactiveBackground", "titleBar.inactiveForeground",
    "titleBar.border",
    "tab.activeBackground", "tab.activeForeground", "tab.activeBorder",
    "tab.activeBorderTop", "tab.inactiveBackground", "tab.inactiveForeground",
    "tab.inactiveModifiedBorder", "tab.unfocusedActiveBackground",
    "tab.unfocusedActiveForeground", "tab.unfocusedInactiveBackground",
    "tab.unfocusedInactiveForeground", "tab.border" }

\* hasEditorCustomizations (ThemeManager.ts 78-86)
HasEditorCustomizations(colorCustomizations) ==
  DOMAIN colorCustomizations \cap PrefixedKeys # {}

\* the editorTheme getCurrentTheme builds (ThemeManager.ts 160-280); it has
\* neither of the optional sections
CurrentEditorTheme(c, t) ==
  [ sideBarSectionHeader |-> <<>>,
    panelTitle |-> <<>>,
    editor |->
      [ background |-> OrDefault(c, "editor.background", "#1e1e1e"),
        foreground |-> OrDefault(c, "editor.foreground", "#d4d4d4"),
        selectionBackground |-> OrDefault(c, "editor.selectionBackground", "#264f78"),
        selectionForeground |-> OrDefault(c, "editor.selectionForeground", "#ffffff"),
        lineHighlightBackground |-> OrDefault(c, "editor.lineHighlightBackground", "#2a2d2e"),
        cursorColor |-> OrDefault(c, "editorCursor.foreground", "#ffffff"),
        indentGuideBackground |-> OrDefault(c, "editorIndentGuide.background", "#404040"),
        indentGuideActiveBackground |-> OrDefault(c, "editorIndentGuide.activeBackground", "#707070") ],
    activityBar |->
      [ background |-> OrDefault(c, "activityBar.background", "#333333"),
        foreground |-> OrDefault(c, "activityBar.foreground", "#ffffff"),
        inactiveForeground |-> OrDefault(c, "activityBar.inactiveForeground", "#ffffff66"),
        border |-> OrDefault(c, "activityBar.border", "#333333"),
        activeBorder |-> OrDefault(c, "activityBar.activeBorder", "#007acc"),
        activeBackground |-> OrDefault(c, "activityBar.activeBackground", "#333333") ],
    sideBar |->
      [ background |-> OrDefault(c, "sideBar.background", "#252526"),
        foreground |-> OrDefault(c, "sideBar.foreground", "#cccccc"),
        border |-> OrDefault(c, "sideBar.border", "#2d2d30") ],
    statusBar |->
      [ background |-> OrDefault(c, "statusBar.background", "#007acc"),
        foreground |-> OrDefault(c, "statusBar.foreground", "#ffffff"),
        border |-> OrDefault(c, "statusBar.border", "#007acc"),
        debuggingBackground |-> OrDefault(c, "statusBar.debuggingBackground", "#cc6633"),
        debuggingForeground |-> OrDefault(c, "statusBar.debuggingForeground", "#ffffff"),
        noFolderBackground |-> OrDefault(c, "statusBar.noFolderBackground", "#68217a"),
        noFolderForeground |-> OrDefault(c, "statusBar.noFolderForeground", "#ffffff") ],
    titleBar |->
      [ activeBackground |-> OrDefault(c, "titleBar.activeBackground", "#3c3c3c"),
        activeForeground |-> OrDefault(c, "titleBar.activeForeground", "#cccccc"),
        inactiveBackground |-> OrDefault(c, "titleBar.inactiveBackground", "#3c3c3c"),
        inactiveForeground |-> OrDefault(c, "titleBar.inactiveForeground", "#999999"),
        border |-> OrDefault(c, "titleBar.border", "#333333") ],
    panel |->
      [ background |-> OrDefault(c, "panel.background", "#1e1e1e"),
        border |-> OrDefault(c, "panel.border", "#333333"),
        dropBorder |-> OrDefault(c, "panel.dropBorder", "#007acc") ],
    tab |->
      [ activeBackground |-> OrDefault(c, "tab.activeBackground", "#1e1e1e"),
        activeForeground |-> OrDefault(c, "tab.activeForeground", "#ffffff"),
        activeBorder |-> OrDefault(c, "tab.activeBorder", "#007acc"),
        activeBorderTop |-> OrDefault(c, "tab.activeBorderTop", "#007acc"),
        inactiveBackground |-> OrDefault(c, "tab.inactiveBackground", "#2d2d30"),
        inactiveForeground |-> OrDefault(c, "tab.inactiveForeground", "#ffffff80"),
        inactiveModifiedBorder |-> OrDefault(c, "tab.inactiveModifiedBorder", "#3399cc"),
        unfocusedActiveBackground |-> OrDefault(c, "tab.unfocusedActiveBackground", "#1e1e1e"),
        unfocusedActiveForeground |-> OrDefault(c, "tab.unfocusedActiveForeground", "#ffffff80"),
        unfocusedInactiveBackground |-> OrDefault(c, "tab.unfocusedInactiveBackground", "#2d2d30"),
        unfocusedInactiveForeground |-> OrDefault(c, "tab.unfocusedInactiveForeground", "#ffffff40"),
        border |-> OrDefault(c, "tab.border", "#333333") ],
    input |->
      [ background |-> OrDefault(c, "input.background", "#3c3c3c"),
        foreground |-> OrDefault(c, "input.foreground", "#cccccc"),
        border |-> OrDefault(c, "input.border", "#3c3c3c"),
        placeholderForeground |-> OrDefault(c, "input.placeholderForeground", "#a6a6a6") ],
    button |->
      [ background |-> OrDefault(c, "button.background", "#0e639c"),
        foreground |-> OrDefault(c, "button.foreground", "#ffffff"),
        hoverBackground |-> OrDefault(c, "button.hoverBackground", "#1177bb"),
        secondaryBackground |-> OrDefault(c, "button.secondaryBackground", "#5f6a79"),
        secondaryForeground |-> OrDefault(c, "button.secondaryForeground", "#ffffff"),
        secondaryHoverBackground |-> OrDefault(c, "button.secondaryHoverBackground", "#4c5561") ],
    checkbox |->
      [ background |-> OrDefault(c, "checkbox.background", "#3c3c3c"),
        foreground |-> OrDefault(c, "checkbox.foreground", "#ffffff"),
        border |-> OrDefault(c, "checkbox.border", "#3c3c3c") ],
    badge |->
      [ background |-> OrDefault(c, "badge.background", "#007acc"),
        foreground |-> OrDefault(c, "badge.foreground", "#ffffff") ],
    progressBar |->
      [ background |-> OrDefault(c, "progressBar.background", "#007acc") ],
    dropdown |->
      [ background |-> OrDefault(c, "dropdown.background", "#3c3c3c"),
        foreground |-> OrDefault(c, "dropdown.foreground", "#cccccc"),
        border |-> OrDefault(c, "dropdown.border", "#3c3c3c") ],
    list |->
      [ activeSelectionBackground |-> OrDefault(c, "list.activeSelectionBackground", "#094771"),
        activeSelectionForeground |-> OrDefault(c, "list.activeSelectionForeground", "#ffffff"),
        inactiveSelectionBackground |-> OrDefault(c, "list.inactiveSelectionBackground", "#37373d"),
        inactiveSelectionForeground |-> OrDefault(c, "list.inactiveSelectionForeground", "#cccccc"),
        hoverBackground |-> OrDefault(c, "list.hoverBackground", "#2a2d2e"),
        hoverForeground |-> OrDefault(c, "list.hoverForeground", "#cccccc"),
        focusBackground |-> OrDefault(c, "list.focusBackground", "#062f4a"),
        focusForeground |-> OrDefault(c, "list.focusForeground", "#cccccc") ],
    scrollbar |->
      [ shadow |-> OrDefault(c, "scrollbar.shadow", "#000000") ],
    syntax |->
      [ comment |-> OrDefault(t, "comments", "#6a9955"),
        keyword |-> OrDefault(t, "keywords", "#569cd6"),
        string |-> OrDefault(t, "strings", "#ce9178"),
        number |-> OrDefault(t, "numbers", "#b5cea8"),
        function |-> OrDefault(t, "functions", "#dcdcaa"),
        variable |-> OrDefault(t, "variables", "#9cdcfe"),
        type |-> OrDefault(t, "types", "#4ec9b0"),
        class |-> OrDefault(t, "types", "#4ec9b0"),
        interface |-> "#b8d7a3",
        namespace |-> OrDefault(t, "types", "#4ec9b0"),
        operator |-> "#d4d4d4",
        punctuation |-> "#d4d4d4",
        constant |-> "#4fc1ff",
        property |-> OrDefault(t, "variables", "#9cdcfe"),
        tag |-> OrDefault(t, "keywords", "#569cd6"),
        attribute |-> "#92c5f8" ] ]

\* the colors getCurrentTheme builds (ThemeManager.ts 108-140)
CurrentColors(c) ==
  [ background |-> OrDefault(c, "terminal.background", "#000000"),
    foreground |-> OrDefault(c, "terminal.foreground", "#ffffff"),
    selection |-> OrDefault(c, "terminal.selectionBackground", "#ffffff40"),
    selectionBackground |-> OrDefault(c, "terminal.selectionBackground", "#ffffff40"),
    ansiBlack |-> OrDefault(c, "terminal.ansiBlack", "#000000"),
    ansiRed |-> OrDefault(c, "terminal.ansiRed", "#cd3131"),
    ansiGreen |-> OrDefault(c, "terminal.ansiGreen", "#0dbc79"),
    ansiYellow |-> OrDefault(c, "terminal.ansiYellow", "#e5e510"),
    ansiBlue |-> OrDefault(c, "terminal.ansiBlue", "#2472c8"),
    ansiMagenta |-> OrDefault(c, "terminal.ansiMagenta", "#bc3fbc"),
    ansiCyan |-> OrDefault(c, "terminal.ansiCyan", "#11a8cd"),
    ansiWhite |-> OrDefault(c, "terminal.ansiWhite", "#e5e5e5"),
    ansiBrightBlack |-> OrDefault(c, "terminal.ansiBrightBlack", "#666666"),
    ansiBrightRed |-> OrDefault(c, "terminal.ansiBrightRed", "#f14c4c"),
    ansiBrightGreen |-> OrDefault(c, "terminal.ansiBrightGreen", "#23d18b"),
    ansiBrightYellow |-> OrDefault(c, "terminal.ansiBrightYellow", "#f5f543"),
    ansiBrightBlue |-> OrDefault(c, "terminal.ansiBrightBlue", "#3b8eea"),
    ansiBrightMagenta |-> OrDefault(c, "terminal.ansiBrightMagenta", "#d670d6"),
    ansiBrightCyan |-> OrDefault(c, "terminal.ansiBrightCyan", "#29b8db"),
    ansiBrightWhite |-> OrDefault(c, "terminal.ansiBrightWhite", "#e5e5e5"),
    border |-> OrDefault(c, "terminal.border", "#333333"),
    tab |-> [ activeForeground |-> OrDefault(c, "terminal.tab.activeForeground", "#ffffff"),
              activeBackground |-> OrDefault(c, "terminal.tab.activeBackground", "#333333"),
              inactiveForeground |-> OrDefault(c, "terminal.tab.inactiveForeground", "#cccccc"),
              inactiveBackground |-> OrDefault(c, "terminal.tab.inactiveBackground", "#2d2d30"),
              border |-> OrDefault(c, "terminal.tab.border", "#333333") ] ]

\* getCurrentTheme (ThemeManager.ts 72-286) on the store s at time t; the
\* document it returns has no integration.customCss, which reads as ""
GetCurrentTheme(s, t) ==
  LET colorCustomizations == ConfigGet(s, "workbench.colorCustomizations", EmptyMap)
      tokenCustomizations == ConfigGet(s, "editor.tokenColorCustomizations", EmptyMap)
      hasEditorCustomizations == HasEditorCustomizations(colorCustomizations)
  IN [ name |-> "Current Settings", created |-> t, modified |-> t,
       font |->
         [ family |-> ConfigGet(s, "terminal.integrated.fontFamily", ""),
           size |-> ConfigGet(s, "terminal.integrated.fontSize", 14),
           weight |-> ConfigGet(s, "terminal.integrated.fontWeight", "normal"),
           ligatures |-> ConfigGet(s, "editor.fontLigatures", FALSE),
           lineHeight |-> ConfigGet(s, "terminal.integrated.lineHeight", "1.2") ],
       cursor |->
         [ style |-> ConfigGet(s, "terminal.integrated.cursorStyle", "block"),
           blinking |-> ConfigGet(s, "terminal.integrated.cursorBlinking", FALSE),
           color |-> OrDefault(colorCustomizations, "terminalCursor.foreground", "#ffffff") ],
       colors |-> CurrentColors(colorCustomizations),
       editorTheme |->
         IF hasEditorCustomizations
           THEN <<CurrentEditorTheme(colorCustomizations, tokenCustomizations)>>
           ELSE <<>>,
       integration |->
         [ applyToEditor |-> hasEditorCustomizations, applyToTerminal |-> TRUE,
           applyToWorkbench |-> hasEditorCustomizations, customCss |-> "" ],
       effects |-> [transparency |-> 0] ]

(***************************************************************************)
(* The customizer panel: the messages of the webview, each handled to      *)
(* completion.  The webview posts whatever object its script built, so a   *)
(* document may lack a section the type requires.                          *)
(***************************************************************************)
\* the sections every document is required to have
Sections == {"font", "cursor", "colors", "integration", "effects"}

\* the document theme without the section
Without(theme, section) == [f \in DOMAIN theme \ {section} |-> theme[f]]

Has(doc, section) == section \in DOMAIN doc

\* applyTheme throws a TypeError where it reads a field of a section the
\* document lacks: font at line 302, cursor at 308, colors at 313,
\* integration at 338, effects at 552 (reached only with customCss set)
Throws(doc) ==
  \/ \E section \in {"font", "cursor", "colors", "integration"} : ~Has(doc, section)
  \/ ~Has(doc, "effects") /\ doc.integration.customCss # ""

\* the updates applyTheme makes on the document before it returns or throws
UpdatesMade(doc) ==
  IF ~Has(doc, "font") THEN SubSeq(DiscreteSteps, 1, 1)
  ELSE IF ~Has(doc, "cursor") THEN SubSeq(DiscreteSteps, 1, 5)
  ELSE IF ~Has(doc, "colors") \/ ~Has(doc, "integration") THEN DiscreteSteps
  ELSE IF ~Has(doc, "effects") THEN StepsBeforeEffects(doc)
  ELSE ApplyThemeSteps(doc)

\* the store after the updates steps of applyTheme on the store s, whose
\* configuration object it took as read
RECURSIVE Updated(_, _, _, _)
Updated(s, read, doc, steps) ==
  IF steps = <<>> THEN s
  ELSE Updated(ApplyThemeStep(s, read, doc, Head(steps)), read, doc, Tail(steps))

\* applyTheme (ThemeManager.ts 288-547) on a document that may lack
\* sections: the backup, the updates up to the throw, and currentTheme when
\* it returns
ApplyDocumentEffect(doc) ==
  LET backupEnabled == ConfigGet(settings, "vibestudio.backup.enabled", TRUE)
      ring == IF backupEnabled
                THEN Pushed(backups, NewBackup(settings, now))
                ELSE backups
  IN /\ backups' = ring
     /\ pushed' = IF backupEnabled
                    THEN <<NewBackup(settings, now)>> \o pushed
                    ELSE pushed
     /\ settings' = Updated(settings, settings, doc, UpdatesMade(doc))
     /\ globalState' =
          [globalState EXCEPT !.backups = IF backupEnabled THEN ring ELSE @,
                              !.currentTheme = IF Throws(doc) THEN @ ELSE <<doc>>]
     /\ Notify(settings, settings')

\* handleMessage with themeUpdate applying the document as well
MessageOperationApplyingPreview(type, data, current) ==
  IF type \in {"themeUpdate", "applyTheme"} /\ data # <<>>
    THEN [op |-> "applyTheme", theme |-> data]
    ELSE IF type = "resetTheme"
           THEN [op |-> "resetToDefaultColors", theme |-> <<>>]
           ELSE NoOperation

\* the ThemeManager operation handleMessage invokes for a message of the
\* type with the data, with current as the panel's currentTheme
\* (ThemeCustomizer.ts 115-165)
MessageOperation(type, data, current) ==
  CASE type = "themeUpdate" -> NoOperation
    [] type = "applyTheme" ->
         IF data # <<>> THEN [op |-> "applyTheme", theme |-> data]
         ELSE IF current # <<>> THEN [op |-> "applyTheme", theme |-> current]
         ELSE NoOperation
    [] type = "resetTheme" -> [op |-> "resetToDefaultColors", theme |-> <<>>]
    [] OTHER -> NoOperation

\* handleMessage (ThemeCustomizer.ts 115-165); a rejection of applyTheme is
\* caught and logged by the listener (lines 36-40)
HandleMessage(type, data) ==
  LET invoked == MessageOperation(type, data, currentTheme) IN
  /\ ops < MaxOps
  /\ CASE invoked.op = "applyTheme" ->
            /\ ApplyDocumentEffect(invoked.theme[1])
            /\ currentTheme' = invoked.theme
            /\ last' = Completed(type, invoked.theme,
                                 IF Throws(invoked.theme[1]) THEN "TypeError" ELSE "ok")
       [] invoked.op = "resetToDefaultColors" ->
            /\ CreateBackupEffect
            /\ settings' = ResetToDefaultColorsWrites(settings)
            /\ Notify(settings, settings')
            /\ currentTheme' = <<GetCurrentTheme(settings', now)>>
            /\ last' = Completed(type, <<>>, "ok")
       [] OTHER ->
            /\ currentTheme' =
                 IF type = "themeUpdate" /\ data # <<>> THEN data ELSE currentTheme
            /\ last' = Completed(type, data,
                                 IF type = "applyTheme" THEN "No theme data" ELSE "ok")
            /\ UNCHANGED <<engineVars, changeEvents>>
  /\ ops' = ops + 1
  /\ UNCHANGED <<calls, now, schedVars, hour, files, imported, io>>

\* the documents the webview posts
PanelThemes == {FullEditor, Glass(50)}

PanelDocuments ==
  PanelThemes \cup {Without(Glass(50), section) : section \in Sections}
              \cup {Without(TerminalOnly, "effects")}

\* a themeUpdate message, with a document or without data
ThemeUpdateMessage ==
  \E data \in {<<>>} \cup {<<doc>> : doc \in PanelDocuments} :
    HandleMessage("themeUpdate", data)

\* an applyTheme message, with a document or without data
ApplyThemeMessage ==
  \E data \in {<<>>} \cup {<<doc>> : doc \in PanelDocuments} :
    HandleMessage("applyTheme", data)

ResetThemeMessage == HandleMessage("resetTheme", <<>>)

GetPresetsMessage == HandleMessage("getPresets", <<>>)

\* initializeWithCurrentTheme (ThemeCustomizer.ts 96-113), run when the
\* panel is created and when it becomes visible
InitializeWithCurrentTheme ==
  /\ ops < MaxOps
  /\ currentTheme' = <<GetCurrentTheme(settings, now)>>
  /\ ops' = ops + 1
  /\ last' = Completed("initializeWithCurrentTheme", <<>>, "ok")
  /\ UNCHANGED <<engineVars, calls, now, schedVars, changeEvents, hour,
                 files, imported, io>>

(***************************************************************************)
(* ExportManager.  A file's content is a text in a syntax ("json" or       *)
(* "yaml") with the value the text denotes: for JSON an object, a          *)
(* function of its member names, that has no member for a property whose   *)
(* value was undefined.                                                    *)
(***************************************************************************)
\* the sections of an editorTheme the type declares optional
OptionalSections == {"sideBarSectionHeader", "panelTitle"}

\* the members JSON.stringify writes for the object: an optional property
\* (a sequence of length 0 or 1) that is undefined is left out
Members(object, optional) ==
  {f \in DOMAIN object : f \in optional => object[f] # <<>>}

\* the JSON object of an editorTheme
StringifyEditorTheme(et) ==
  [f \in Members(et, OptionalSections) |->
     IF f \in OptionalSections THEN et[f][1] ELSE et[f]]

\* the editorTheme a JSON object is read as
ParseEditorTheme(object) ==
  [f \in DOMAIN object \cup OptionalSections |->
     IF f \in OptionalSections
       THEN IF f \in DOMAIN object THEN <<object[f]>> ELSE <<>>
       ELSE object[f]]

\* JSON.stringify(theme, null, 2)
Stringify(theme) ==
  [ syntax |-> "json",
    value |->
      [f \in Members(theme, {"editorTheme"}) |->
         IF f = "editorTheme" THEN StringifyEditorTheme(theme[f][1]) ELSE theme[f]] ]

\* the document JSON.parse(content) as TerminalTheme is read as
ParseTheme(object) ==
  [f \in DOMAIN object \cup {"editorTheme"} |->
     IF f = "editorTheme"
       THEN IF f \in DOMAIN object THEN <<ParseEditorTheme(object[f])>> ELSE <<>>
       ELSE object[f]]

\* exportToTermiStyle (ExportManager.ts 65-67)
ExportToTermiStyle(theme) == Stringify(theme)

\* exportToAlacritty (ExportManager.ts 69-95)
ExportToAlacritty(theme) ==
  [ syntax |-> "yaml",
    value |->
      [ comment |-> theme.name,
        colors |->
          [ primary |-> [ background |-> theme.colors.background,
                          foreground |-> theme.colors.foreground ],
            normal |-> [ black |-> theme.colors.ansiBlack,
                         red |-> theme.colors.ansiRed,
                         green |-> theme.colors.ansiGreen,
                         yellow |-> theme.colors.ansiYellow,
                         blue |-> theme.colors.ansiBlue,
                         magenta |-> theme.colors.ansiMagenta,
                         cyan |-> theme.colors.ansiCyan,
                         white |-> theme.colors.ansiWhite ],
            bright |-> [ black |-> theme.colors.ansiBrightBlack,
                         red |-> theme.colors.ansiBrightRed,
                         green |-> theme.colors.ansiBrightGreen,
                         yellow |-> theme.colors.ansiBrightYellow,
                         blue |-> theme.colors.ansiBrightBlue,
                         magenta |-> theme.colors.ansiBrightMagenta,
                         cyan |-> theme.colors.ansiBrightCyan,
                         white |-> theme.colors.ansiBrightWhite ] ] ] ]

\* exportToWindowsTerminal (ExportManager.ts 97-123)
ExportToWindowsTerminal(theme) ==
  [ syntax |-> "json",
    value |->
      [ name |-> theme.name,
        background |-> theme.colors.background,
        foreground |-> theme.colors.foreground,
        black |-> theme.colors.ansiBlack,
        red |-> theme.colors.ansiRed,
        green |-> theme.colors.ansiGreen,
        yellow |-> theme.colors.ansiYellow,
        blue |-> theme.colors.ansiBlue,
        purple |-> theme.colors.ansiMagenta,
        cyan |-> theme.colors.ansiCyan,
        white |-> theme.colors.ansiWhite,
        brightBlack |-> theme.colors.ansiBrightBlack,
        brightRed |-> theme.colors.ansiBrightRed,
        brightGreen |-> theme.colors.ansiBrightGreen,
        brightYellow |-> theme.colors.ansiBrightYellow,
        brightBlue |-> theme.colors.ansiBrightBlue,
        brightPurple |-> theme.colors.ansiBrightMagenta,
        brightCyan |-> theme.colors.ansiBrightCyan,
        brightWhite |-> theme.colors.ansiBrightWhite ] ]

\* the content exportTheme's switch builds for the format, <<>> for a
\* format of the default branch (ExportManager.ts 27-39)
ExportContent(theme, format) ==
  CASE format = "termistyle" -> <<ExportToTermiStyle(theme)>>
    [] format = "alacritty" -> <<ExportToAlacritty(theme)>>
    [] format = "windows-terminal" -> <<ExportToWindowsTerminal(theme)>>
    [] OTHER -> <<>>

\* what an import throws
Thrown(message) == [error |-> message]

\* importFromTermiStyle stamping the document as importFromJSON does
ImportFromTermiStyleStamping(content, filePath, t) ==
  IF content.syntax # "json"
    THEN Thrown("Invalid TermiStyle theme file")
    ELSE [ source |-> filePath, format |-> "termistyle",
           theme |-> [ParseTheme(content.value) EXCEPT !.modified = t],
           warnings |-> <<>> ]

\* importFromTermiStyle (ExportManager.ts 125-137); t is the time, which
\* it does not use
ImportFromTermiStyle(content, filePath, t) ==
  IF content.syntax # "json"
    THEN Thrown("Invalid TermiStyle theme file")
    ELSE [ source |-> filePath, format |-> "termistyle",
           theme |-> ParseTheme(content.value), warnings |-> <<>> ]

\* json[member] || default
MemberOr(json, member, default) ==
  IF member \in DOMAIN json /\ json[member] # "" THEN json[member] ELSE default

\* importFromWindowsTerminal (ExportManager.ts 167-210)
ImportFromWindowsTerminal(json, filePath, t) ==
  [ source |-> filePath, format |-> "windows-terminal",
    theme |->
      [ name |-> MemberOr(json, "name", filePath.base),
        created |-> t, modified |-> t,
        colors |->
          [ background |-> MemberOr(json, "background", "#000000"),
            foreground |-> MemberOr(json, "foreground", "#ffffff"),
            selection |-> MemberOr(json, "selectionBackground", "#ffffff40"),
            selectionBackground |-> MemberOr(json, "selectionBackground", "#ffffff40"),
            ansiBlack |-> MemberOr(json, "black", "#000000"),
            ansiRed |-> MemberOr(json, "red", "#cd3131"),
            ansiGreen |-> MemberOr(json, "green", "#0dbc79"),
            ansiYellow |-> MemberOr(json, "yellow", "#e5e510"),
            ansiBlue |-> MemberOr(json, "blue", "#2472c8"),
            ansiMagenta |-> MemberOr(json, "purple", "#bc3fbc"),
            ansiCyan |-> MemberOr(json, "cyan", "#11a8cd"),
            ansiWhite |-> MemberOr(json, "white", "#e5e5e5"),
            ansiBrightBlack |-> MemberOr(json, "brightBlack", "#666666"),
            ansiBrightRed |-> MemberOr(json, "brightRed", "#f14c4c"),
            ansiBrightGreen |-> MemberOr(json, "brightGreen", "#23d18b"),
            ansiBrightYellow |-> MemberOr(json, "brightYellow", "#f5f543"),
            ansiBrightBlue |-> MemberOr(json, "brightBlue", "#3b8eea"),
            ansiBrightMagenta |-> MemberOr(json, "brightPurple", "#d670d6"),
            ansiBrightCyan |-> MemberOr(json, "brightCyan", "#29b8db"),
            ansiBrightWhite |-> MemberOr(json, "brightWhite", "#e5e5e5"),
            border |-> "#333333",
            tab |-> [ activeForeground |-> "#ffffff",
                      activeBackground |-> "#333333",
                      inactiveForeground |-> "#cccccc",
                      inactiveBackground |-> "#2d2d30",
                      border |-> "#333333" ] ] ],
    warnings |-> <<>> ]

\* importFromJSON (ExportManager.ts 139-165)
ImportFromJSON(content, filePath, t) ==
  IF content.syntax # "json"
    THEN Thrown("Invalid JSON file")
    ELSE LET json == content.value IN
         IF /\ MemberOr(json, "name", "") # ""
            /\ MemberOr(json, "background", "") # ""
            /\ MemberOr(json, "foreground", "") # ""
           THEN ImportFromWindowsTerminal(json, filePath, t)
           ELSE [ source |-> filePath, format |-> "json",
                  theme |-> [ name |-> MemberOr(json, "name", filePath.base),
                              created |-> t, modified |-> t ],
                  warnings |-> <<"Generic JSON import - may require manual adjustment">> ]

\* importTheme's switch on the extension (ExportManager.ts 50-60)
ImportContent(content, filePath, t) ==
  CASE filePath.ext \in {".termistyle", ".code-terminal-theme"} ->
         ImportFromTermiStyle(content, filePath, t)
    [] filePath.ext = ".json" -> ImportFromJSON(content, filePath, t)
    [] OTHER -> Thrown("Unsupported file format")

\* exportTheme (ExportManager.ts 24-42)
ExportTheme(theme, format, filePath) ==
  LET content == ExportContent(theme, format) IN
  /\ ops < MaxOps
  /\ IF content = <<>>
       THEN /\ UNCHANGED files
            /\ io' = <<>>
            /\ last' = Completed("exportTheme", <<theme>>, "Unsupported export format")
       ELSE /\ files' = [files EXCEPT ![filePath] = content]
            /\ io' = <<[op |-> "writeFile", path |-> filePath]>>
            /\ last' = Completed("exportTheme", <<theme>>, "ok")
  /\ ops' = ops + 1
  /\ UNCHANGED <<engineVars, calls, now, schedVars, changeEvents, hour,
                 currentTheme, imported>>

\* importTheme (ExportManager.ts 44-63): readFile rejects for a path that
\* names no file
ImportTheme(filePath) ==
  /\ ops < MaxOps
  /\ io' = <<[op |-> "readFile", path |-> filePath]>>
  /\ imported' = IF files[filePath] = <<>>
                   THEN Thrown("ENOENT")
                   ELSE ImportContent(files[filePath][1], filePath, now)
  /\ last' = Completed("importTheme", <<>>,
                       IF "error" \in DOMAIN imported' THEN imported'.error ELSE "ok")
  /\ ops' = ops + 1
  /\ UNCHANGED <<engineVars, calls, now, schedVars, changeEvents, hour,
                 currentTheme, files>>

\* the formats asked for: the three exportTheme knows and two more that
\* getSupportedFormats lists
Formats == {"termistyle", "alacritty", "windows-terminal", "iterm2", "kitty"}

\* the documents exported
ExportThemes == {TerminalOnly, FullEditor, TypedEditor, Glass(50)}

NextFiles ==
  \/ \E theme \in ExportThemes, format \in Formats, filePath \in Paths :
       ExportTheme(theme, format, filePath)
  \/ \E filePath \in Paths : ImportTheme(filePath)
  \/ Tick

SpecFiles == Init /\ [][NextFiles]_vars

\* keys of the colour map a user writes by hand in settings.json: one of each
\* of four surfaces applyTheme's editor fan-out writes (ThemeManager.ts
\* 337-497), one editor key and one terminal key
HandWrittenKeys ==
  { "panel.background", "list.hoverBackground", "button.background",
    "editorCursor.foreground", "editor.background", "terminal.background" }

\* the user writes one colour customization of their own while the panel is
\* open
CustomizationEdit ==
  /\ ops < MaxOps
  /\ \E key \in HandWrittenKeys :
       settings' =
         [settings EXCEPT !["workbench.colorCustomizations"] =
            <<ObjectAssign(ColorCustomizations(settings), key :> "#123456")>>]
  /\ settings' # settings
  /\ Notify(settings, settings')
  /\ ops' = ops + 1
  /\ last' = Completed("userEdit", <<>>, "ok")
  /\ UNCHANGED <<globalState, backups, pushed, calls, now, schedVars, hour, panelVars>>

NextPanel ==
  \/ ThemeUpdateMessage
  \/ ApplyThemeMessage
  \/ ResetThemeMessage
  \/ GetPresetsMessage
  \/ InitializeWithCurrentTheme
  \/ CustomizationEdit
  \/ Tick

SpecPanel == Init /\ [][NextPanel]_vars

(***************************************************************************)
(* Properties.                                                             *)
(***************************************************************************)
\* the keys applyTheme assigns for a document, whatever the map it read
AssignedKeys(theme) == DOMAIN MergedColorCustomizations(theme, EmptyMap)

Applied == last.op = "applyTheme"

\* C1: applyTheme merges: every key of workbench.colorCustomizations that
\* it does not assign for the document has, after the apply, exactly the
\* value it had before (none is removed, added or changed).
ApplyPreservesUnrelatedKeys ==
  Applied =>
    LET before == ColorCustomizations(last.settings)
        after == ColorCustomizations(settings)
    IN \A k \in ((DOMAIN before) \cup (DOMAIN after)) \ AssignedKeys(last.theme[1]) :
         /\ k \in DOMAIN before
         /\ k \in DOMAIN after
         /\ after[k] = before[k]

\* an apply of a document with an editor fan-out has kept the user's own key
UnrelatedKeyKept ==
  /\ Applied
  /\ last.theme[1].integration.applyToEditor
  /\ "editorError.foreground" \in DOMAIN ColorCustomizations(last.settings)
  /\ "editorError.foreground" \in DOMAIN ColorCustomizations(settings)

\* C2: apply is idempotent on the colour map: applying to the map an apply
\* has just left the document it applied gives that map again, and an
\* apply of the document the apply before it applied leaves the map it
\* found.
ApplyIdempotent ==
  /\ Applied =>
       ApplyColorMap(last.theme[1], ColorCustomizations(settings))
         = ColorCustomizations(settings)
  /\ (Applied /\ last.prev.op = "applyTheme" /\ last.prev.theme = last.theme) =>
       ColorCustomizations(settings) = ColorCustomizations(last.settings)

\* a document with the alpha override active has been applied twice in a row
AppliedTwiceWithAlpha ==
  /\ Applied
  /\ last.prev.op = "applyTheme"
  /\ last.prev.theme = last.theme
  /\ last.theme[1].effects.transparency > 0
  /\ last.theme[1].integration.customCss # ""
  /\ Len(ColorCustomizations(settings)["terminal.background"]) = 9

\* the keys applyTheme writes for the terminal
TerminalKeys ==
  { "terminal.background", "terminal.foreground", "terminal.selectionBackground",
    "terminal.ansiBlack", "terminal.ansiRed", "terminal.ansiGreen",
    "terminal.ansiYellow", "terminal.ansiBlue", "terminal.ansiMagenta",
    "terminal.ansiCyan", "terminal.ansiWhite", "terminal.ansiBrightBlack",
    "terminal.ansiBrightRed", "terminal.ansiBrightGreen",
    "terminal.ansiBrightYellow", "terminal.ansiBrightBlue",
    "terminal.ansiBrightMagenta", "terminal.ansiBrightCyan",
    "terminal.ansiBrightWhite", "terminal.border" }

TerminalCursorKeys == {"terminalCursor.foreground", "terminalCursor.background"}

TerminalTabKeys ==
  { "terminal.tab.activeForeground", "terminal.tab.activeBackground",
    "terminal.tab.inactiveForeground", "terminal.tab.inactiveBackground",
    "terminal.tab.border" }

\* a terminal-only document without editorTheme was applied onto an empty map
TerminalOnlyOntoEmpty ==
  /\ Applied
  /\ ~last.theme[1].integration.applyToEditor
  /\ ~last.theme[1].integration.applyToWorkbench
  /\ last.theme[1].editorTheme = <<>>
  /\ ColorCustomizations(last.settings) = EmptyMap

TransparencyLaw ==
  Applied =>
    LET theme == last.theme[1]
        background == ColorCustomizations(settings)["terminal.background"]
    IN IF theme.effects.transparency > 0
         THEN background = theme.colors.background \o Alpha(theme.effects.transparency)
         ELSE background = theme.colors.background

\* C7: store upsert: a save of a document whose name is in the store
\* leaves exactly one entry of that name, at its position, with the created
\* value the entry had and with modified the time of this save.
SaveOverwritesInPlace ==
  (last.op = "saveTheme" /\
   FindIndex(last.globalState.savedThemes, last.theme[1].name) >= 1) =>
    LET before == last.globalState.savedThemes
        after == globalState.savedThemes
        name == last.theme[1].name
        i == FindIndex(before, name)
    IN /\ Len(after) = Len(before)
       /\ {j \in 1..Len(after) : after[j].name = name} = {i}
       /\ after[i].created = before[i].created
       /\ after[i].modified = last.time

\* the operations that capture a backup first: both resets, and applyTheme
\* started with backup-on-apply enabled
CapturesBackup(c) ==
  \/ c.op \in {"resetToDefault", "resetToDefaultColors"}
  \/ c.op = "applyTheme" /\ ConfigGet(c.entry, "vibestudio.backup.enabled", TRUE)

\* the ring holds a backup of the settings the call c started on
HoldsBackupOf(ring, c) ==
  \E j \in 1..Len(ring) :
    ring[j].settings = [k \in SnapshotKeys |-> c.entry[k]]

\* C5: backup precedes mutation: a call of applyTheme with backup-on-apply
\* enabled, or of either reset, that has written a setting has before that
\* pushed a backup of the settings it started on onto the ring and
\* persisted it; a call whose backup failed has written no setting.
BackupPrecedesMutation ==
  \A i \in 1..Len(calls) :
    /\ (CapturesBackup(calls[i]) /\ calls[i].writes > 0) =>
         /\ HoldsBackupOf(backups, calls[i])
         /\ HoldsBackupOf(globalState.backups, calls[i])
    /\ calls[i].pc = "failed" => calls[i].writes = 0

\* one call has failed at its backup, and another, started on settings the
\* ring had no backup of, is past its first write
WroteAfterBackup ==
  \E i, j \in 1..Len(calls) :
    /\ calls[i].pc = "failed"
    /\ CapturesBackup(calls[j])
    /\ calls[j].writes > 0
    /\ calls[j].pc = "update"

\* C6: backup ring bound: after any number of pushes the ring holds the
\* min(n, 10) most recent backups, the most recent first, and the
\* persisted copy equals the ring.
RingHoldsMostRecent ==
  /\ Len(backups) = (IF Len(pushed) < 10 THEN Len(pushed) ELSE 10)
  /\ \A i \in 1..Len(backups) : backups[i] = pushed[i]
  /\ globalState.backups = backups

\* fifteen backups have been pushed, of different settings and times
FifteenPushed ==
  /\ Len(pushed) = 15
  /\ Len(backups) = 10
  /\ pushed[1] # pushed[11]
  /\ pushed[10].timestamp # pushed[11].timestamp

\* C8: time-based selection: an evaluation started at hour h with the
\* switching hours lightHour and darkHour selects the light theme if
\* lightHour <= h < darkHour and the dark theme otherwise, and applies it;
\* so 6 and 18 give dark at 5 and 18 and light at 6 and 17, and
\* lightHour >= darkHour gives dark at every hour.
TimeBasedSelection ==
  (last.op = "evaluation") =>
    LET h == last.hour
        light == config.lightHour <= h /\ h < config.darkHour
    IN /\ last.result = (IF light THEN "Light" ELSE "Dark")
       /\ globalState.currentTheme # <<>>
       /\ globalState.currentTheme[1].name = last.result
       /\ (config.lightHour = 6 /\ config.darkHour = 18 /\ h \in {5, 18}) =>
            last.result = "Dark"
       /\ (config.lightHour = 6 /\ config.darkHour = 18 /\ h \in {6, 17}) =>
            last.result = "Light"
       /\ config.lightHour >= config.darkHour => last.result = "Dark"

\* the light theme has been selected at the last hour of a light interval
LightSelectedAtLastHour ==
  /\ last.op = "evaluation"
  /\ last.hour = 17
  /\ config.lightHour = 6
  /\ config.darkHour = 18
  /\ globalState.currentTheme # <<>>
  /\ globalState.currentTheme[1].name = "Light"

\* C9: a missing theme is a silent no-op: an evaluation never suspends on
\* an empty name, and one that resumes with a name the Theme Store does
\* not hold writes no setting, pushes no backup, leaves globalState as it
\* was and applies nothing; neither raises an error.
MissingThemeIsNoOp ==
  /\ \A i \in 1..Len(evals) : evals[i].name # ""
  /\ (last.op \in {"timerFires", "changeNotified"} /\ last.result = "") =>
       /\ settings = last.settings
       /\ backups = last.backups
       /\ globalState = last.globalState
  /\ (last.op = "evaluation" /\
      \A j \in 1..Len(last.globalState.savedThemes) :
         last.globalState.savedThemes[j].name # last.result) =>
       /\ settings = last.settings
       /\ backups = last.backups
       /\ globalState = last.globalState
       /\ last.theme = <<>>

\* an evaluation has resumed with a name the store does not hold
MissingThemeEvaluated ==
  /\ last.op = "evaluation"
  /\ last.result = "Missing"
  /\ last.globalState.savedThemes # <<>>

\* C10: cancellation: when disable() has returned, and until enable() is
\* called again, the host holds no interval and no subscription of the
\* scheduler, and no timer tick and no change notification fires.
DisableCancels ==
  /\ last.switch = "disabled" => (intervals = {} /\ listeners = {})
  /\ (last.op \in {"timerFires", "changeNotified"}) => last.switch # "disabled"

\* disable() has returned on a scheduler whose timer enable() had armed
DisabledAfterTimer ==
  /\ last.op = "disable"
  /\ last.prev.op = "enable"
  /\ config.mode = "time"
  /\ last.switch = "disabled"
  /\ intervals = {}

\* a call that has started and not ended
InProgress(c) == c.pc \notin {"done", "failed"}

\* C11: at no point are two applyTheme invocations in progress at once: a
\* second apply is not started while one is pending
NoOverlappingApplies ==
  Cardinality({i \in 1..Len(calls) :
                 calls[i].op = "applyTheme" /\ InProgress(calls[i])}) <= 1

\* the position of the update step among the updates of the call c, 0 when
\* the call does not make it
StepIndex(c, step) ==
  LET at == {j \in 1..Len(Steps(c)) : Steps(c)[j] = step}
  IN IF at = {} THEN 0 ELSE CHOOSE j \in at : TRUE

\* C19: between applyTheme's read of workbench.colorCustomizations and its
\* final write of the map no other operation writes the map, and no state
\* a reader can observe holds the theme's plain terminal background while
\* its transparency override is still to be written
ColorMapWriteAtomic ==
  \A i \in 1..Len(calls) :
    LET c == calls[i] IN
    (c.op = "applyTheme" /\ c.pc = "update") =>
      /\ c.idx <= StepIndex(c, "workbench.colorCustomizations") =>
           ColorCustomizations(settings) = ColorCustomizations(c.read)
      /\ (StepIndex(c, "customEffects") # 0 /\ c.idx = StepIndex(c, "customEffects")) =>
           LET map == ColorCustomizations(settings)
           IN ~ /\ "terminal.background" \in DOMAIN map
                /\ map["terminal.background"] = c.theme[1].colors.background

\* C18: after onConfigurationChanged or setupAutoSwitch completes, the timer
\* is armed iff the loaded configuration has enabled = true and
\* mode = time, the subscription exists iff enabled = true and
\* mode = system, and the host holds no interval and no subscription of the
\* previous configuration
ReconfigurationTearsDown ==
  (last.op \in {"onConfigurationChanged", "setupAutoSwitch"} /\ last.result = "ok") =>
    /\ (timer # <<>>) <=> (config.enabled /\ config.mode = "time")
    /\ (systemThemeWatcher # <<>>) <=> (config.enabled /\ config.mode = "system")
    /\ intervals = {timer[i] : i \in 1..Len(timer)}
    /\ listeners = {systemThemeWatcher[i] : i \in 1..Len(systemThemeWatcher)}

\* the evaluation completed last resolved to the document that the
\* previous apply had stored as current, on settings that already hold
\* everything the document writes
RedundantEvaluation ==
  /\ last.op = "evaluation"
  /\ last.theme # <<>>
  /\ last.globalState.currentTheme = last.theme
  /\ ApplyThemeWrites(last.settings, last.theme[1]) = last.settings

\* C20: a scheduler evaluation that resolves to the same theme as the
\* previous evaluation, with no other change in between, performs no write:
\* it makes none of applyTheme's updates and stores no backup
NoRedundantSchedulerWrites ==
  RedundantEvaluation =>
    /\ Len(ApplyThemeSteps(last.theme[1])) = 0
    /\ backups = last.backups
    /\ globalState = last.globalState

\* C12: handling a themeUpdate message invokes no operation of
\* ThemeManager and leaves the settings, the globalState (theme store,
\* stored backups, current theme) and the backup ring as they were; only
\* the panel's currentTheme changes, to the document of the message
PreviewIsSideEffectFree ==
  last.op = "themeUpdate" =>
    /\ MessageOperation("themeUpdate", last.theme, currentTheme) = NoOperation
    /\ settings = last.settings
    /\ globalState = last.globalState
    /\ backups = last.backups
    /\ last.theme # <<>> => currentTheme = last.theme

\* a themeUpdate with a document was handled after an apply of another
\* document: the panel holds the new one, the store the one applied
PreviewedAfterApply ==
  /\ last.op = "themeUpdate"
  /\ last.prev.op = "applyTheme"
  /\ last.prev.theme = <<Glass(50)>>
  /\ currentTheme = <<FullEditor>>
  /\ globalState.currentTheme = <<Glass(50)>>
  /\ Len(backups) = 1

\* C13: a document that lacks a required section is never partially
\* applied: the apply is rejected and every persisted setting has the
\* value it had before the call
MalformedNeverApplied ==
  (last.op = "applyTheme" /\ last.theme # <<>> /\ ~(Sections \subseteq DOMAIN last.theme[1])) =>
    /\ last.result # "ok"
    /\ settings = last.settings

\* the fields of the section of document d that document r reproduces
Reproduces(r, d, section, fields) ==
  \A f \in fields : r[section][f] = d[section][f]

\* C17: reading the current theme from the settings an apply of document d
\* produced reproduces the terminal colours, the font family, size, weight
\* and lineHeight and the cursor style, blinking and colour of d, and every
\* field of every surface of d.editorTheme when that was present and
\* applyToEditor was true
ReadCurrentInvertsApply ==
  (last.op = "applyTheme" /\ last.result = "ok" /\ Sections \subseteq DOMAIN last.theme[1]) =>
    LET d == last.theme[1]
        r == GetCurrentTheme(settings, now)
    IN /\ Reproduces(r, d, "colors", DOMAIN d.colors \ {"selection", "tab"})
       /\ Reproduces(r, d, "font", {"family", "size", "weight", "lineHeight"})
       /\ Reproduces(r, d, "cursor", {"style", "blinking", "color"})
       /\ (d.editorTheme # <<>> /\ d.integration.applyToEditor) =>
            /\ r.editorTheme # <<>>
            /\ \A surface \in DOMAIN d.editorTheme[1] \ OptionalSections :
                 r.editorTheme[1][surface] = d.editorTheme[1][surface]

\* importTheme completed last, on the file at the path, which holds content
ImportedFrom(filePath, content) ==
  /\ last.op = "importTheme"
  /\ io = <<[op |-> "readFile", path |-> filePath]>>
  /\ files[filePath] = <<content>>

\* the extensions of the native format (ExportManager.ts 15, 51-52)
NativeExtensions == {".termistyle", ".code-terminal-theme"}

\* C14: importing a file of the native format that holds the native export
\* of a document d returns a theme equal to d with an empty warnings list
NativeRoundTripLossless ==
  \A d \in ExportThemes, filePath \in Paths :
    (ImportedFrom(filePath, ExportToTermiStyle(d)) /\ filePath.ext \in NativeExtensions) =>
      imported = [ source |-> filePath, format |-> "termistyle",
                   theme |-> d, warnings |-> <<>> ]

\* the native export of a document with an editorTheme that lacks its
\* optional sections was imported from a .termistyle file
NativeImported ==
  /\ ImportedFrom([base |-> "theme", ext |-> ".termistyle"], ExportToTermiStyle(TypedEditor))
  /\ "theme" \in DOMAIN imported
  /\ imported.theme.editorTheme[1].panelTitle = <<>>
  /\ last.prev.op = "exportTheme"

\* the background, the foreground and the 16 ANSI colours
YamlColors ==
  { "background", "foreground", "ansiBlack", "ansiRed", "ansiGreen",
    "ansiYellow", "ansiBlue", "ansiMagenta", "ansiCyan", "ansiWhite",
    "ansiBrightBlack", "ansiBrightRed", "ansiBrightGreen", "ansiBrightYellow",
    "ansiBrightBlue", "ansiBrightMagenta", "ansiBrightCyan", "ansiBrightWhite" }

\* C15: importing the file that the export of a document d to the
\* terminal-emulator YAML dialect wrote yields a document whose background,
\* foreground and 16 ANSI colours equal those of d
YamlRoundTrip ==
  \A d \in ExportThemes, filePath \in Paths :
    ImportedFrom(filePath, ExportToAlacritty(d)) =>
      /\ "theme" \in DOMAIN imported
      /\ "colors" \in DOMAIN imported.theme
      /\ \A f \in YamlColors : imported.theme.colors[f] = d.colors[f]

\* C16: an exportTheme with a format outside the known set fails without a
\* file write, and an importTheme of a file whose extension is outside the
\* known set fails without a file read
UnsupportedRejectedBeforeIO ==
  /\ (last.op = "exportTheme" /\ last.result = "Unsupported export format") => io = <<>>
  /\ (last.op = "importTheme" /\ last.result = "Unsupported file format") => io = <<>>

\* every key applyTheme's editor and workbench fan-out writes: the keys of
\* the full fan-out and of the two fallbacks
FanOutKeys ==
  DOMAIN EditorColors(FullEditor) \cup DOMAIN FallbackEditorColors(Fallback)
    \cup DOMAIN FallbackWorkbenchColors(Fallback)

\* C21: the document getCurrentTheme returns has an editorTheme exactly when
\* the colour map holds at least one key of an editor or workbench surface
\* that applyTheme's fan-out writes, panel.*, list.*, button.* and
\* editorCursor.* keys included; with terminal keys only it has none.
EditorThemePresence ==
  (last.op = "initializeWithCurrentTheme")
    => ((currentTheme[1].editorTheme # <<>>)
          <=> (DOMAIN ColorCustomizations(last.settings) \cap FanOutKeys # {}))

\* C22: the colours-only reset empties the colour map and the token-colour
\* map and sets the terminal font size to 14; the base theme reference and
\* every other setting keep the value they had before the reset.
ColorsOnlyResetFrame ==
  (last.op = "resetToDefaultColors")
    => /\ settings["workbench.colorCustomizations"] = <<EmptyMap>>
       /\ settings["editor.tokenColorCustomizations"] = <<EmptyMap>>
       /\ settings["terminal.integrated.fontSize"] = <<14>>
       /\ \A k \in SettingKeys \ { "workbench.colorCustomizations",
                                   "editor.tokenColorCustomizations",
                                   "terminal.integrated.fontSize" } :
            settings[k] = last.settings[k]

\* the six terminal and cursor settings resetToDefault unsets
DiscreteSettings ==
  { "terminal.integrated.fontFamily", "terminal.integrated.fontSize",
    "terminal.integrated.fontWeight", "terminal.integrated.lineHeight",
    "terminal.integrated.cursorStyle", "terminal.integrated.cursorBlinking" }

\* C23 as stated: the full reset leaves the colour map and the token-colour
\* map empty, the base theme reference unset and the six terminal and cursor
\* settings unset.
FullResetClearsBaseTheme ==
  (last.op = "resetToDefault")
    => /\ settings["workbench.colorCustomizations"] = <<EmptyMap>>
       /\ settings["editor.tokenColorCustomizations"] = <<EmptyMap>>
       /\ settings["workbench.colorTheme"] = <<>>
       /\ \A k \in DiscreteSettings : settings[k] = <<>>

\* C23, amended: the full reset leaves the colour map and the token-colour
\* map empty, the base theme reference set to "Dark+" and the six terminal
\* and cursor settings unset.
FullResetSetsDarkPlus ==
  (last.op = "resetToDefault")
    => /\ settings["workbench.colorCustomizations"] = <<EmptyMap>>
       /\ settings["editor.tokenColorCustomizations"] = <<EmptyMap>>
       /\ settings["workbench.colorTheme"] = <<"Dark+">>
       /\ \A k \in DiscreteSettings : settings[k] = <<>>

\* a full reset of settings an apply of a document with an editorTheme wrote
FullResetAfterApply ==
  /\ last.op = "resetToDefault"
  /\ last.prev.op = "applyTheme"
  /\ last.settings["terminal.integrated.fontSize"] # <<>>
  /\ last.settings["editor.tokenColorCustomizations"] \notin {<<>>, <<EmptyMap>>}
  /\ settings["workbench.colorTheme"] = <<"Dark+">>

\* C24: restoreBackup(timestamp) with a backup of that timestamp in the ring
\* sets every key the snapshot records to the snapshot's value and changes no
\* other setting and not the ring; with no such backup it fails with "Backup
\* not found" and changes no setting.
RestoreBackupEffect ==
  (last.op = "restoreBackup")
    => LET present == {i \in 1..Len(last.backups) :
                         last.backups[i].timestamp = last.argument[1]}
       IN /\ backups = last.backups
          /\ globalState = last.globalState
          /\ IF present = {}
               THEN /\ last.result = "Backup not found"
                    /\ settings = last.settings
               ELSE /\ last.result = "ok"
                    /\ \E i \in present :
                         \A k \in DOMAIN last.backups[i].settings :
                           settings[k] = last.backups[i].settings[k]
                    /\ \A k \in SettingKeys \ SnapshotKeys :
                         settings[k] = last.settings[k]

\* a restore that found its backup and changed the colour map back
RestoredFromRing ==
  /\ last.op = "restoreBackup"
  /\ last.result = "ok"
  /\ last.backups # <<>>
  /\ settings["workbench.colorCustomizations"]
       # last.settings["workbench.colorCustomizations"]
  /\ settings["editor.tokenColorCustomizations"] \notin {<<>>, <<EmptyMap>>}

\* C25: applying a document without editorTheme writes, with applyToEditor,
\* exactly the three generic editor keys from the terminal background,
\* foreground and selection colours and, with applyToWorkbench, exactly the
\* four workbench-shell background keys from the terminal background; no
\* other editor or workbench key is written, and the apply completes.
DegradedFallbacks ==
  (last.op = "applyTheme" /\ last.theme[1].editorTheme = <<>>)
    => LET theme == last.theme[1]
           before == ColorCustomizations(last.settings)
           after == ColorCustomizations(settings)
           editorKeys ==
             IF theme.integration.applyToEditor
               THEN {"editor.background", "editor.foreground",
                     "editor.selectionBackground"}
               ELSE {}
           workbenchKeys ==
             IF theme.integration.applyToWorkbench
               THEN {"sideBar.background", "activityBar.background",
                     "statusBar.background", "titleBar.activeBackground"}
               ELSE {}
       IN /\ last.result = "ok"
          /\ editorKeys \cup workbenchKeys \subseteq DOMAIN after
          /\ theme.integration.applyToEditor
               => /\ after["editor.background"] = theme.colors.background
                  /\ after["editor.foreground"] = theme.colors.foreground
                  /\ after["editor.selectionBackground"]
                       = theme.colors.selectionBackground
          /\ \A k \in workbenchKeys : after[k] = theme.colors.background
          /\ \A k \in FanOutKeys \ (editorKeys \cup workbenchKeys) :
               /\ k \in DOMAIN after <=> k \in DOMAIN before
               /\ k \in DOMAIN after => after[k] = before[k]

\* applies of documents without editorTheme, one with applyToEditor alone
\* right after one with applyToWorkbench alone
FallbacksApplied ==
  /\ last.op = "applyTheme"
  /\ last.theme = <<FallbackEditor>>
  /\ last.prev = [op |-> "applyTheme", theme |-> <<FallbackWorkbench>>]
  /\ ColorCustomizations(settings)["sideBar.background"]
       = FallbackWorkbench.colors.background
  /\ ColorCustomizations(settings)["editor.background"]
       = FallbackEditor.colors.background

\* system mode with its subscription and no interval, a theme applied, and
\* neither a notification nor an evaluation pending
SystemModeQuiescent ==
  /\ config.mode = "system"
  /\ listeners # {}
  /\ intervals = {}
  /\ changeEvents = {}
  /\ evals = <<>>
  /\ globalState.currentTheme # <<>>

DisableLeavesEvaluation ==
  /\ (/\ last.op = "disable"
      /\ last.prev.op = "timerFires"
      /\ TimeBasedThemeName(last.hour, config) # "")
       => evals # <<>>
  /\ (last.op = "evaluation" /\ last.theme # <<>> /\ last.switch = "disabled")
       => /\ ~config.enabled
          /\ settings = ApplyThemeWrites(last.settings, last.theme[1])
          /\ backups = Pushed(last.backups, NewBackup(last.settings, last.time))
          /\ globalState.currentTheme = last.theme

\* an evaluation that applied its theme right after disable() returned
AppliedAfterDisable ==
  /\ last.op = "evaluation"
  /\ last.theme # <<>>
  /\ last.prev.op = "disable"
  /\ last.switch = "disabled"
  /\ ~config.enabled
  /\ intervals = {}
  /\ listeners = {}
  /\ settings # last.settings
  /\ Len(backups) = Len(last.backups) + 1

\* C28: dispose() is disable(): once its write of autoSwitch.enabled has
\* landed, the persisted configuration says disabled, and a scheduler
\* constructed from it and initialized has enabled false, no timer and no
\* subscription, whether auto-switch was enabled before the dispose or not.
DisposePersistsDisabled ==
  (last.op = "saveConfigLands" /\ last.prev.op = "dispose" /\ saving = <<>>)
    => LET constructed ==
             [Scheduler EXCEPT !.config = LoadConfig(settings),
                               !.timer = <<>>, !.systemThemeWatcher = <<>>]
           initialized ==
             IF constructed.config.enabled
               THEN EnableEffect(constructed, NewHandle, settings, hour,
                                 globalState.savedThemes)
               ELSE constructed
       IN /\ settings["termistyle.autoSwitch.enabled"] = <<FALSE>>
          /\ ~initialized.config.enabled
          /\ initialized.timer = <<>>
          /\ initialized.systemThemeWatcher = <<>>

\* the write of a dispose() landed on a configuration persisted as enabled
DisposedWhileEnabled ==
  /\ last.op = "saveConfigLands"
  /\ last.prev.op = "dispose"
  /\ saving = <<>>
  /\ last.settings["termistyle.autoSwitch.enabled"] = <<TRUE>>
  /\ settings["termistyle.autoSwitch.enabled"] = <<FALSE>>

\* C29: applyTheme never removes a key an earlier apply wrote: after document
\* A (editorTheme, applyToEditor) and then document B (neither applyToEditor
\* nor applyToWorkbench), every editor and workbench key written for A is in
\* the colour map with A's value and the token-colour map holds A's syntax
\* colours; the terminal keys carry B's values.
ApplyKeepsEarlierKeys ==
  (/\ last.op = "applyTheme"
   /\ last.prev.op = "applyTheme"
   /\ last.prev.theme[1].integration.applyToEditor
   /\ last.prev.theme[1].editorTheme # <<>>
   /\ ~last.theme[1].integration.applyToEditor
   /\ ~last.theme[1].integration.applyToWorkbench)
    => LET A == last.prev.theme[1]
           B == last.theme[1]
           map == ColorCustomizations(settings)
       IN /\ \A k \in DOMAIN Stored(EditorColors(A)) :
               k \in DOMAIN map /\ map[k] = EditorColors(A)[k]
          /\ settings["editor.tokenColorCustomizations"]
               = <<TokenColorCustomizations(A)>>
          /\ \A k \in DOMAIN Stored(TerminalColors(B)) \ {"terminal.background"} :
               k \in DOMAIN map /\ map[k] = TerminalColors(B)[k]
          /\ B.integration.customCss = ""
               => map["terminal.background"] = B.colors.background

\* a terminal-only document of another palette applied over a full editor
\* theme
TerminalOnlyOverFullEditor ==
  /\ last.op = "applyTheme"
  /\ last.prev = [op |-> "applyTheme", theme |-> <<FullEditor>>]
  /\ last.theme = <<TerminalOnly>>
  /\ ColorCustomizations(settings)["list.hoverBackground"]
       = FullEditor.editorTheme[1].list.hoverBackground
  /\ ColorCustomizations(settings)["terminal.foreground"]
       = TerminalOnly.colors.foreground
  /\ TerminalOnly.colors.foreground # FullEditor.colors.foreground

\* C30: applyTheme followed by restoreBackup of the backup that apply
\* captured is not a full undo: the eight snapshot keys have the values the
\* backup recorded before the apply, while the token-colour map and
\* editor.fontLigatures keep what the apply left, the applied document's
\* syntax colours and ligatures when it wrote them.
RestoreIsPartialUndo ==
  (/\ last.op = "restoreBackup"
   /\ last.result = "ok"
   /\ last.prev.op = "applyTheme"
   /\ ConfigGet(last.settings, "vibestudio.backup.enabled", TRUE)
   /\ last.argument = <<last.backups[1].timestamp>>)
    => LET A == last.prev.theme[1]
           captured == last.backups[1].settings
       IN /\ \A k \in SnapshotKeys : settings[k] = captured[k]
          /\ settings["editor.tokenColorCustomizations"]
               = last.settings["editor.tokenColorCustomizations"]
          /\ settings["editor.fontLigatures"] = last.settings["editor.fontLigatures"]
          /\ (A.integration.applyToEditor /\ A.editorTheme # <<>>)
               => settings["editor.tokenColorCustomizations"]
                    = <<TokenColorCustomizations(A)>>
          /\ A.font.ligatures => settings["editor.fontLigatures"] = <<TRUE>>

\* a full editor theme applied to settings without customizations and its
\* backup restored: the snapshot keys are unset again, the token-colour map
\* and the ligatures are not
RestoredAfterFullEditor ==
  /\ last.op = "restoreBackup"
  /\ last.result = "ok"
  /\ last.prev = [op |-> "applyTheme", theme |-> <<FullEditor>>]
  /\ last.argument = <<last.backups[1].timestamp>>
  /\ \A k \in SnapshotKeys : settings[k] = <<>>
  /\ last.settings["workbench.colorCustomizations"] # <<>>
  /\ settings["editor.tokenColorCustomizations"]
       = <<TokenColorCustomizations(FullEditor)>>
  /\ settings["editor.fontLigatures"] = <<TRUE>>

Next ==
  \/ \E theme \in Themes : ApplyTheme(theme)
  \/ ResetToDefault
  \/ ResetToDefaultColors
  \/ \E timestamp \in 0..MaxTime : RestoreBackup(timestamp)
  \/ \E theme \in StoreThemes, created \in {0, now} : SaveTheme(theme, created)
  \/ \E name \in {"Dark", "Light"} : DeleteTheme(name)
  \/ UserEdit
  \/ Tick

Spec == Init /\ [][Next]_vars
====
